---- MODULE Spec2Model ----
(***************************************************************************)
(* SquadStash: membership-gated shared savings goals ("buckets", "trips")  *)
(* kept in a remote document store with real-time listeners.               *)
(*                                                                         *)
(* The model has one client per principal.  Every client runs the screens  *)
(* of app/(tabs)/buckets.tsx (BucketsScreen), app/(tabs)/home.tsx          *)
(* (TripsScreen, TripDetailScreen) and the CreateTripScreen.  A handler    *)
(* that awaits a remote call is split at the await: the first step runs    *)
(* the guards, sets the pending flag and puts the request in flight, the   *)
(* second step (...Settled) is the store applying or rejecting the request *)
(* followed by the rest of the handler (try / catch / finally).  Handlers  *)
(* are callable in every state of their screen, whatever the buttons that  *)
(* reach them show; an early return that changes nothing is no step.       *)
(*                                                                         *)
(* Strings are sequences of one-character strings so that trim(),          *)
(* toLowerCase() and Number() are computed, not assumed.  Cosmetic fields  *)
(* (location, timestamps, dialog visibility flags) are left out; color is  *)
(* carried but never edited here.  Of the console only the warning of a    *)
(* handler's guard is kept; the logging of caught errors is left out.      *)
(***************************************************************************)
EXTENDS Integers, Sequences, FiniteSets, Bags, TLC

\* ------------------------------------------------------------------ bounds
NumUsers == 2
MaxDocs == 2
MaxPending == 2
MaxContrib == 1

UserOrder == <<"u1", "u2", "u3">>
Users == {UserOrder[i] : i \in 1..Len(UserOrder)}
Clients == {UserOrder[i] : i \in 1..NumUsers}
BucketIds == 1..MaxDocs
TripIds == 1..MaxDocs
Null == "null"

\* ----------------------------------------------------------------- strings
WS == {" "}
UpperChars == <<"A", "B", "C", "I", "O", "X", "Z", "R">>
LowerChars == <<"a", "b", "c", "i", "o", "x", "z", "r">>

RECURSIVE TrimStart(_)
TrimStart(s) ==
  IF s # <<>> /\ Head(s) \in WS THEN TrimStart(Tail(s)) ELSE s

RECURSIVE TrimEnd(_)
TrimEnd(s) ==
  IF s # <<>> /\ s[Len(s)] \in WS THEN TrimEnd(SubSeq(s, 1, Len(s) - 1)) ELSE s

\* String.prototype.trim
trim(s) == TrimEnd(TrimStart(s))

LowerChar(ch) ==
  IF \E i \in 1..Len(UpperChars) : UpperChars[i] = ch
  THEN LowerChars[CHOOSE i \in 1..Len(UpperChars) : UpperChars[i] = ch]
  ELSE ch

\* String.prototype.toLowerCase
toLowerCase(s) == [i \in 1..Len(s) |-> LowerChar(s[i])]

\* String.prototype.includes for a one-character needle
includes(s, ch) == \E i \in 1..Len(s) : s[i] = ch

\* ----------------------------------------------------------------- numbers
\* A JavaScript number: finite integer, NaN, or +/-Infinity.
Fin(n) == [k |-> "fin", v |-> n]
NaN == [k |-> "nan", v |-> 0]
Infinity == [k |-> "inf", v |-> 1]
Zero == Fin(0)

isFinite(x) == x.k = "fin"
\* x > 0, x <= 0, x < 0 with NaN comparing false
gt0(x) == (x.k = "fin" /\ x.v > 0) \/ (x.k = "inf" /\ x.v > 0)
le0(x) == (x.k = "fin" /\ x.v <= 0) \/ (x.k = "inf" /\ x.v < 0)
lt0(x) == (x.k = "fin" /\ x.v < 0) \/ (x.k = "inf" /\ x.v < 0)
\* truthiness of a number: false for 0 and NaN
truthy(x) == ~(x.k = "nan" \/ (x.k = "fin" /\ x.v = 0))
\* x || 0
orZero(x) == IF truthy(x) THEN x ELSE Zero

\* a + b
plus(a, b) ==
  IF a.k = "nan" \/ b.k = "nan" THEN NaN
  ELSE IF a.k = "inf" /\ b.k = "inf" THEN (IF a.v = b.v THEN a ELSE NaN)
  ELSE IF a.k = "inf" THEN a
  ELSE IF b.k = "inf" THEN b
  ELSE Fin(a.v + b.v)

Digits == <<"0", "1", "2", "3", "4", "5", "6", "7", "8", "9">>
isDigit(ch) == \E i \in 1..Len(Digits) : Digits[i] = ch
digitVal(ch) == (CHOOSE i \in 1..Len(Digits) : Digits[i] = ch) - 1

RECURSIVE digitsVal(_)
digitsVal(s) ==
  IF s = <<>> THEN 0
  ELSE Len(Digits) * digitsVal(SubSeq(s, 1, Len(s) - 1)) + digitVal(s[Len(s)])

allDigits(s) == s # <<>> /\ \A i \in 1..Len(s) : isDigit(s[i])
InfinityStr == <<"I", "n", "f", "i", "n", "i", "t", "y">>

\* Number(string) for strings without fraction or exponent part:
\* surrounding whitespace is ignored, "" is 0, an optional sign, decimal
\* digits, the literal Infinity, anything else NaN.
Number(str) ==
  LET t == trim(str)
      neg == t # <<>> /\ Head(t) = "-"
      body == IF t # <<>> /\ Head(t) \in {"-", "+"} THEN Tail(t) ELSE t
  IN  IF t = <<>> THEN Zero
      ELSE IF allDigits(body) THEN Fin(IF neg THEN 0 - digitsVal(body) ELSE digitsVal(body))
      ELSE IF body = InfinityStr THEN [k |-> "inf", v |-> IF neg THEN 0 - 1 ELSE 1]
      ELSE NaN

\* --------------------------------------------------------------- documents
COLORS == <<"#2563EB", "#10B981", "#8B5CF6", "#F59E0B", "#EF4444", "#06B6D4", "#EC4899", "#0EA5E9">>

\* A stored bucket document.  exists = FALSE: no document under that id;
\* deleted = TRUE: the id was used and is never handed out again.
NoDoc ==
  [exists |-> FALSE, deleted |-> FALSE, name |-> <<>>, target |-> Zero,
   balance |-> Zero, color |-> Null, ownerId |-> "", memberIds |-> {}]

\* type Bucket of the buckets screen; id = 0 stands for null.
NoBucket ==
  [id |-> 0, name |-> <<>>, target |-> Zero, balance |-> Zero,
   color |-> Null, ownerId |-> "", memberIds |-> {}]

\* A stored trip document.
NoTripDoc ==
  [exists |-> FALSE, deleted |-> FALSE, title |-> <<>>, target |-> Zero,
   saved |-> Zero, ownerId |-> "", memberIds |-> {}]

\* type Trip of the trips screens; id = 0 stands for null.
NoTrip ==
  [id |-> 0, title |-> <<>>, target |-> Zero, saved |-> Zero,
   ownerId |-> "", memberIds |-> {}]

\* A request in flight together with what the awaiting handler captured:
\* c the client, h the handler, uid the caller's user.uid, id the document,
\* the fields of the call, and members, the memberIds of the handler's bucket
\* object.  stored and typed are history: the memberIds the store held when
\* the handler was called, and the name and target inputs as they were typed.
NoReq ==
  [c |-> "", h |-> "", uid |-> "", id |-> 0, name |-> <<>>, target |-> Zero,
   balance |-> Zero, amount |-> Zero, member |-> "", email |-> <<>>,
   members |-> {}, stored |-> {}, typed |-> <<>>, code |-> ""]

\* The c of a request whose screen has been unmounted since: the handler goes
\* on after its await, and its setState calls change nothing.
Unmounted == "unmounted"
mounted(r) == r.c # Unmounted

VARIABLES
  user,           \* AuthContext user per client (Null = signed out)
  bucketDocs,     \* remote collection "buckets"
  tripDocs,       \* remote collection "trips"
  pending,        \* bag of remote calls in flight
  listeners,      \* per client: each onSnapshot listener, live / dead (error) / off
  bucketsScreen,  \* per client: React state of BucketsScreen
  tripsScreen,    \* per client: React state of TripsScreen
  tripDetail,     \* per client: React state of TripDetailScreen
  createTrip,     \* per client: React state of CreateTripScreen
  homeScreen,     \* per client: React state of HomeScreen
  console,        \* per client: the most recent warning of a handler's guard
  issued,         \* per client: number of contributions issued (bounded)
  contributed,    \* history: sum of the contribution amounts the store applied
  authCtx         \* per client: AuthProvider loading, and the auth state of the SDK

vars ==
  <<user, bucketDocs, tripDocs, pending, listeners, bucketsScreen, tripsScreen,
    tripDetail, createTrip, homeScreen, console, issued, contributed, authCtx>>

\* ------------------------------------------------------------ initial state
\* useState initial values of BucketsScreen
BucketsScreenInit ==
  [buckets |-> <<>>, readError |-> Null, name |-> <<>>, target |-> <<>>,
   balance |-> <<>>, submitting |-> FALSE, editing |-> NoBucket,
   membersBucket |-> NoBucket, inviteEmail |-> <<>>,
   membersSubmitting |-> FALSE, membersError |-> Null]

\* useState initial values of TripsScreen
TripsScreenInit ==
  [trips |-> <<>>, fetching |-> TRUE, error |-> Null, title |-> <<>>,
   target |-> <<>>, creating |-> FALSE, createError |-> Null,
   contributeTrip |-> NoTrip, contributeAmount |-> <<>>,
   contributeSubmitting |-> FALSE, contributeError |-> Null]

\* useState initial values of TripDetailScreen for the route parameter tripId
TripDetailInit(tripId) ==
  [tripId |-> tripId, trip |-> NoTrip, fetching |-> TRUE, error |-> Null,
   submitting |-> FALSE]

\* useState initial values of CreateTripScreen
CreateTripInit ==
  [title |-> <<>>, target |-> <<>>, submitting |-> FALSE, error |-> Null]

\* useState initial values of HomeScreen
HomeScreenInit == [buckets |-> <<>>]

\* The calls of AuthProvider's onAuthStateChanged callback
AuthCalls == {"getIdToken", "upsertPublicUser"}

\* A listener is subscribing from onSnapshot(...) to its first snapshot, live
\* from then on, dead after its error callback, off after unsub().
attached(l) == l \in {"subscribing", "live"}

\* The listeners of a client whose screens mounted for the principal uid: the
\* queries were built with that uid.  Off: every effect cleanup has run.
ListenersInit(uid) ==
  [uid |-> uid, buckets |-> "subscribing", trips |-> "subscribing",
   detail |-> "subscribing", home |-> "subscribing"]
ListenersOff ==
  [uid |-> Null, buckets |-> "off", trips |-> "off", detail |-> "off", home |-> "off"]

\* AuthProvider and the auth SDK of a client whose sign-in as u went through:
\* current is the principal of the most recent auth state change, token the
\* principal whose getIdToken() has resolved, events counts the changes.
AuthCtxOf(u) == [current |-> u, loading |-> FALSE, token |-> u, events |-> 0]

\* Every client signed in, every screen mounted with its listener opened and
\* no snapshot delivered yet; the given documents are in the store.
InitWith(bdocs, tdocs) ==
  /\ user = [c \in Clients |-> c]
  /\ bucketDocs = bdocs
  /\ tripDocs = tdocs
  /\ pending = EmptyBag
  /\ listeners = [c \in Clients |-> ListenersInit(c)]
  /\ bucketsScreen = [c \in Clients |-> BucketsScreenInit]
  /\ tripsScreen = [c \in Clients |-> TripsScreenInit]
  /\ tripDetail = [c \in Clients |-> TripDetailInit(1)]
  /\ createTrip = [c \in Clients |-> CreateTripInit]
  /\ homeScreen = [c \in Clients |-> HomeScreenInit]
  /\ console = [c \in Clients |-> ""]
  /\ issued = [c \in Clients |-> 0]
  /\ contributed = [buckets |-> [i \in BucketIds |-> 0], trips |-> [i \in TripIds |-> 0]]
  /\ authCtx = [c \in Clients |-> AuthCtxOf(c)]

\* --------------------------------------------------------------- listeners
\* One decoded element of the buckets snapshot.
decodeBucket(i, d) ==
  [id |-> i, name |-> d.name, target |-> orZero(d.target),
   balance |-> orZero(d.balance), color |-> d.color, ownerId |-> d.ownerId,
   memberIds |-> d.memberIds]

\* One decoded element of the trips snapshot.
decodeTrip(i, d) ==
  [id |-> i, title |-> d.title, target |-> orZero(d.target),
   saved |-> orZero(d.saved), ownerId |-> d.ownerId, memberIds |-> d.memberIds]

\* where("memberIds", "array-contains", uid), orderBy("createdAt", "desc"):
\* document ids are handed out in creation order, so newest first is n down to 1.
RECURSIVE bucketsQuery(_, _)
bucketsQuery(uid, n) ==
  IF n = 0 THEN <<>>
  ELSE (IF bucketDocs[n].exists /\ uid \in bucketDocs[n].memberIds
        THEN <<decodeBucket(n, bucketDocs[n])>> ELSE <<>>) \o bucketsQuery(uid, n - 1)

RECURSIVE tripsQuery(_, _)
tripsQuery(uid, n) ==
  IF n = 0 THEN <<>>
  ELSE (IF tripDocs[n].exists /\ uid \in tripDocs[n].memberIds
        THEN <<decodeTrip(n, tripDocs[n])>> ELSE <<>>) \o tripsQuery(uid, n - 1)

\* One element of the HomeScreen snapshot (type MiniBucket).
decodeMini(d) ==
  [name |-> d.name, balance |-> orZero(d.balance), target |-> orZero(d.target)]

\* HomeScreen: the same query over buckets
RECURSIVE homeQuery(_, _)
homeQuery(uid, n) ==
  IF n = 0 THEN <<>>
  ELSE (IF bucketDocs[n].exists /\ uid \in bucketDocs[n].memberIds
        THEN <<decodeMini(bucketDocs[n])>> ELSE <<>>) \o homeQuery(uid, n - 1)

\* Access rule of the store for reading one document.
canRead(uid, d) == uid \in d.memberIds

\* The buckets callback adding the snapshot to the list it has instead of
\* replacing the list
bucketsOnSnapshotMerge(c) ==
  /\ attached(listeners[c].buckets)
  /\ LET next == bucketsQuery(listeners[c].uid, MaxDocs)
         old == bucketsScreen[c].buckets
     IN  bucketsScreen' = [bucketsScreen EXCEPT ![c].buckets =
           next \o SelectSeq(old, LAMBDA b : \A k \in 1..Len(next) : next[k].id # b.id)]
  /\ listeners' = [listeners EXCEPT ![c].buckets = "live"]
  /\ UNCHANGED <<user, bucketDocs, tripDocs, pending, tripsScreen, tripDetail, createTrip,
                 homeScreen, console, issued, contributed, authCtx>>

\* BucketsScreen: onSnapshot success callback
bucketsOnSnapshot(c) ==
  /\ attached(listeners[c].buckets)
  /\ bucketsScreen' = [bucketsScreen EXCEPT ![c].buckets = bucketsQuery(listeners[c].uid, MaxDocs)]
  /\ listeners' = [listeners EXCEPT ![c].buckets = "live"]
  /\ UNCHANGED <<user, bucketDocs, tripDocs, pending, tripsScreen, tripDetail, createTrip,
                 homeScreen, console, issued, contributed, authCtx>>

\* BucketsScreen: onSnapshot error callback; the listener ends with the error
bucketsOnSnapshotError(c) ==
  /\ attached(listeners[c].buckets)
  /\ listeners' = [listeners EXCEPT ![c].buckets = "dead"]
  /\ bucketsScreen' = [bucketsScreen EXCEPT ![c].readError = "Can't load buckets (permissions). Double-check Firestore rules."]
  /\ UNCHANGED <<user, bucketDocs, tripDocs, pending, tripsScreen, tripDetail, createTrip,
                 homeScreen, console, issued, contributed, authCtx>>

\* TripsScreen: onSnapshot success callback
tripsOnSnapshot(c) ==
  /\ attached(listeners[c].trips)
  /\ tripsScreen' = [tripsScreen EXCEPT ![c].trips = tripsQuery(listeners[c].uid, MaxDocs),
                                       ![c].fetching = FALSE]
  /\ listeners' = [listeners EXCEPT ![c].trips = "live"]
  /\ UNCHANGED <<user, bucketDocs, tripDocs, pending, bucketsScreen, tripDetail, createTrip,
                 homeScreen, console, issued, contributed, authCtx>>

\* TripsScreen: onSnapshot error callback
tripsOnSnapshotError(c) ==
  /\ attached(listeners[c].trips)
  /\ listeners' = [listeners EXCEPT ![c].trips = "dead"]
  /\ tripsScreen' = [tripsScreen EXCEPT ![c].error = "Missing or insufficient permissions.",
                                       ![c].trips = <<>>,
                                       ![c].fetching = FALSE]
  /\ UNCHANGED <<user, bucketDocs, tripDocs, pending, bucketsScreen, tripDetail, createTrip,
                 homeScreen, console, issued, contributed, authCtx>>

\* TripDetailScreen: onSnapshot success callback on doc(db, "trips", tripId);
\* the store delivers an existing document only to who may read it.
tripDetailOnSnapshot(c) ==
  /\ attached(listeners[c].detail)
  /\ LET i == tripDetail[c].tripId IN
       tripDocs[i].exists => canRead(listeners[c].uid, tripDocs[i])
  /\ LET i == tripDetail[c].tripId IN
       IF ~tripDocs[i].exists
       THEN tripDetail' = [tripDetail EXCEPT ![c].trip = NoTrip,
                                            ![c].fetching = FALSE,
                                            ![c].error = "Trip not found."]
       ELSE tripDetail' = [tripDetail EXCEPT ![c].trip = decodeTrip(i, tripDocs[i]),
                                            ![c].fetching = FALSE]
  /\ listeners' = [listeners EXCEPT ![c].detail = "live"]
  /\ UNCHANGED <<user, bucketDocs, tripDocs, pending, bucketsScreen, tripsScreen, createTrip,
                 homeScreen, console, issued, contributed, authCtx>>

\* TripDetailScreen: onSnapshot error callback
tripDetailOnSnapshotError(c) ==
  /\ attached(listeners[c].detail)
  /\ listeners' = [listeners EXCEPT ![c].detail = "dead"]
  /\ tripDetail' = [tripDetail EXCEPT ![c].trip = NoTrip,
                                     ![c].fetching = FALSE,
                                     ![c].error = "Missing or insufficient permissions."]
  /\ UNCHANGED <<user, bucketDocs, tripDocs, pending, bucketsScreen, tripsScreen, createTrip,
                 homeScreen, console, issued, contributed, authCtx>>

\* HomeScreen: onSnapshot success callback
homeOnSnapshot(c) ==
  /\ attached(listeners[c].home)
  /\ homeScreen' = [homeScreen EXCEPT ![c].buckets = homeQuery(listeners[c].uid, MaxDocs)]
  /\ listeners' = [listeners EXCEPT ![c].home = "live"]
  /\ UNCHANGED <<user, bucketDocs, tripDocs, pending, bucketsScreen, tripsScreen, tripDetail,
                 createTrip, console, issued, contributed, authCtx>>

\* HomeScreen passes no error callback: an error ends the listener and the
\* screen keeps what it has.
homeOnSnapshotError(c) ==
  /\ attached(listeners[c].home)
  /\ listeners' = [listeners EXCEPT ![c].home = "dead"]
  /\ UNCHANGED <<user, bucketDocs, tripDocs, pending, bucketsScreen, tripsScreen, tripDetail,
                 createTrip, homeScreen, console, issued, contributed, authCtx>>

\* ------------------------------------------------------------ remote calls
\* Put a remote call in flight.
send(r) == pending' = pending (+) SetToBag({r})
\* The call r has settled.
settled(r) == pending' = pending (-) SetToBag({r})
\* A call settles and the handler issues its next call.
settledThenSend(r, q) == pending' = (pending (-) SetToBag({r})) (+) SetToBag({q})
InFlight == BagToSet(pending)
canSend == BagCardinality(pending) < MaxPending

elems(seq) == {seq[i] : i \in 1..Len(seq)}

\* ------------------------------------------------------------------- session
\* The requests of client c go on without their screens.
orphaned(c) ==
  BagOfAll(LAMBDA r : IF r.c = c /\ r.h \notin AuthCalls THEN [r EXCEPT !.c = Unmounted] ELSE r,
           pending)

\* A logout whose effect cleanups do not unsubscribe
logoutNoUnsub(c) ==
  /\ user[c] # Null
  /\ user' = [user EXCEPT ![c] = Null]
  /\ bucketsScreen' = [bucketsScreen EXCEPT ![c] = BucketsScreenInit]
  /\ tripsScreen' = [tripsScreen EXCEPT ![c] = TripsScreenInit]
  /\ tripDetail' = [tripDetail EXCEPT ![c] = TripDetailInit(tripDetail[c].tripId)]
  /\ createTrip' = [createTrip EXCEPT ![c] = CreateTripInit]
  /\ homeScreen' = [homeScreen EXCEPT ![c] = HomeScreenInit]
  /\ pending' = orphaned(c)
  /\ authCtx' = [authCtx EXCEPT ![c].current = Null, ![c].token = Null]
  /\ UNCHANGED <<bucketDocs, tripDocs, listeners, console, issued, contributed>>

\* A logout after which the screens keep their state
logoutKeepsState(c) ==
  /\ user[c] # Null
  /\ user' = [user EXCEPT ![c] = Null]
  /\ listeners' = [listeners EXCEPT ![c] = ListenersOff]
  /\ pending' = orphaned(c)
  /\ authCtx' = [authCtx EXCEPT ![c].current = Null, ![c].token = Null]
  /\ UNCHANGED <<bucketDocs, tripDocs, bucketsScreen, tripsScreen, tripDetail, createTrip,
                 homeScreen, console, issued, contributed>>

\* Profile.onLogout: signOut, onAuthStateChanged(null) sets user to null,
\* TabLayout renders the redirect to the login screen instead of the tabs:
\* every tab screen unmounts, the cleanup of every listener effect calls its
\* unsub(), the state of the screens is gone (a later mount starts from the
\* useState initial values).
logout(c) ==
  /\ user[c] # Null
  /\ user' = [user EXCEPT ![c] = Null]
  /\ listeners' = [listeners EXCEPT ![c] = ListenersOff]
  /\ bucketsScreen' = [bucketsScreen EXCEPT ![c] = BucketsScreenInit]
  /\ tripsScreen' = [tripsScreen EXCEPT ![c] = TripsScreenInit]
  /\ tripDetail' = [tripDetail EXCEPT ![c] = TripDetailInit(tripDetail[c].tripId)]
  /\ createTrip' = [createTrip EXCEPT ![c] = CreateTripInit]
  /\ homeScreen' = [homeScreen EXCEPT ![c] = HomeScreenInit]
  /\ pending' = orphaned(c)
  /\ authCtx' = [authCtx EXCEPT ![c].current = Null, ![c].token = Null]
  /\ UNCHANGED <<bucketDocs, tripDocs, console, issued, contributed>>

\* Login: signInWithEmailAndPassword, onAuthStateChanged(u) sets user, TabLayout
\* renders the tabs, the tab screens mount and their effects open the
\* listeners with u's uid; no trip is open.
login(c, u) ==
  /\ user[c] = Null
  /\ user' = [user EXCEPT ![c] = u]
  /\ listeners' = [listeners EXCEPT ![c] = [ListenersInit(u) EXCEPT !.detail = "off"]]
  /\ authCtx' = [authCtx EXCEPT ![c].current = u, ![c].token = u]
  /\ UNCHANGED <<bucketDocs, tripDocs, pending, bucketsScreen, tripsScreen, tripDetail,
                 createTrip, homeScreen, console, issued, contributed>>

\* ----------------------------------------------------------- contributions
QuickAddAmounts == {50, 100}
QuickContributeAmounts == {25, 50, 200}
DetailContributeAmounts == {50, 200}

mayContribute(c) == issued[c] < MaxContrib /\ canSend

\* BucketsScreen.quickAdd(bucket, amount) up to its await: the new balance is
\* computed from the bucket object of the rendered list.
quickAdd(c, bucket, amount) ==
  /\ user[c] # Null
  /\ mayContribute(c)
  /\ LET nextBalance == plus(orZero(bucket.balance), Fin(amount)) IN
       send([NoReq EXCEPT !.c = c, !.h = "quickAdd", !.uid = user[c],
                          !.id = bucket.id, !.balance = nextBalance,
                          !.amount = Fin(amount)])
  /\ issued' = [issued EXCEPT ![c] = @ + 1]
  /\ UNCHANGED <<user, bucketDocs, tripDocs, listeners, bucketsScreen, tripsScreen,
                 tripDetail, createTrip, homeScreen, console, contributed, authCtx>>

\* updateDoc(ref, {balance: nextBalance}) settles; quickAdd only logs a failure.
quickAddSettled(r, ok) ==
  /\ r.h = "quickAdd"
  /\ settled(r)
  /\ IF ok /\ bucketDocs[r.id].exists
     THEN /\ bucketDocs' = [bucketDocs EXCEPT ![r.id].balance = r.balance]
          /\ contributed' = [contributed EXCEPT !.buckets[r.id] = @ + r.amount.v]
     ELSE /\ UNCHANGED <<bucketDocs, contributed>>
  /\ UNCHANGED <<user, tripDocs, listeners, bucketsScreen, tripsScreen, tripDetail,
                 createTrip, homeScreen, console, issued, authCtx>>

\* The store applies updateDoc(ref, {saved: increment(amt)}).
applyIncrement(r) ==
  /\ tripDocs' = [tripDocs EXCEPT ![r.id].saved = plus(@, r.amount)]
  /\ contributed' = [contributed EXCEPT !.trips[r.id] = @ + r.amount.v]

\* TripsScreen.quickContribute(trip, amt) up to its await
quickContribute(c, trip, amt) ==
  /\ user[c] # Null
  /\ mayContribute(c)
  /\ send([NoReq EXCEPT !.c = c, !.h = "quickContribute", !.uid = user[c],
                        !.id = trip.id, !.amount = Fin(amt)])
  /\ issued' = [issued EXCEPT ![c] = @ + 1]
  /\ UNCHANGED <<user, bucketDocs, tripDocs, listeners, bucketsScreen, tripsScreen,
                 tripDetail, createTrip, homeScreen, console, contributed, authCtx>>

\* quickContribute after the await: catch sets the screen error
quickContributeSettled(r, ok) ==
  /\ r.h = "quickContribute"
  /\ settled(r)
  /\ IF ok /\ tripDocs[r.id].exists
     THEN applyIncrement(r) /\ UNCHANGED tripsScreen
     ELSE /\ tripsScreen' = IF mounted(r) THEN [tripsScreen EXCEPT ![r.c].error = "Failed to contribute (permissions)."] ELSE tripsScreen
          /\ UNCHANGED <<tripDocs, contributed>>
  /\ UNCHANGED <<user, bucketDocs, listeners, bucketsScreen, tripDetail, createTrip,
                 homeScreen, console, issued, authCtx>>

\* TripsScreen.openContribute(trip)
openContribute(c, trip) ==
  /\ tripsScreen' = [tripsScreen EXCEPT ![c].contributeTrip = trip,
                                       ![c].contributeAmount = <<>>,
                                       ![c].contributeError = Null]
  /\ UNCHANGED <<user, bucketDocs, tripDocs, pending, listeners, bucketsScreen, tripDetail,
                 createTrip, homeScreen, console, issued, contributed, authCtx>>

\* TripsScreen.closeContribute
closeContribute(c) ==
  /\ tripsScreen' = [tripsScreen EXCEPT ![c].contributeTrip = NoTrip,
                                       ![c].contributeAmount = <<>>,
                                       ![c].contributeError = Null]
  /\ UNCHANGED <<user, bucketDocs, tripDocs, pending, listeners, bucketsScreen, tripDetail,
                 createTrip, homeScreen, console, issued, contributed, authCtx>>

\* Contribute dialog: onChangeText of the amount input
setContributeAmount(c, v) ==
  /\ tripsScreen[c].contributeTrip.id # 0
  /\ tripsScreen' = [tripsScreen EXCEPT ![c].contributeAmount = v,
                                       ![c].contributeError = Null]
  /\ UNCHANGED <<user, bucketDocs, tripDocs, pending, listeners, bucketsScreen, tripDetail,
                 createTrip, homeScreen, console, issued, contributed, authCtx>>

\* TripsScreen.onConfirmContribute up to its await
onConfirmContribute(c) ==
  /\ user[c] # Null
  /\ tripsScreen[c].contributeTrip.id # 0
  /\ LET amt == Number(tripsScreen[c].contributeAmount) IN
       IF ~isFinite(amt) \/ le0(amt)
       THEN /\ tripsScreen' = [tripsScreen EXCEPT ![c].contributeError = "Enter a valid amount greater than 0."]
            /\ UNCHANGED <<pending, issued>>
       ELSE /\ mayContribute(c)
            /\ tripsScreen' = [tripsScreen EXCEPT ![c].contributeSubmitting = TRUE,
                                                 ![c].contributeError = Null]
            /\ send([NoReq EXCEPT !.c = c, !.h = "onConfirmContribute", !.uid = user[c],
                                  !.id = tripsScreen[c].contributeTrip.id,
                                  !.amount = amt])
            /\ issued' = [issued EXCEPT ![c] = @ + 1]
  /\ UNCHANGED <<user, bucketDocs, tripDocs, listeners, bucketsScreen, tripDetail,
                 createTrip, homeScreen, console, contributed, authCtx>>

\* onConfirmContribute after the await: closeContribute / catch, then finally
onConfirmContributeSettled(r, ok) ==
  /\ r.h = "onConfirmContribute"
  /\ settled(r)
  /\ IF ok /\ tripDocs[r.id].exists
     THEN /\ applyIncrement(r)
          /\ tripsScreen' = IF mounted(r) THEN [tripsScreen EXCEPT ![r.c].contributeTrip = NoTrip,
                                                                  ![r.c].contributeAmount = <<>>,
                                                                  ![r.c].contributeError = Null,
                                                                  ![r.c].contributeSubmitting = FALSE] ELSE tripsScreen
     ELSE /\ tripsScreen' = IF mounted(r) THEN [tripsScreen EXCEPT ![r.c].contributeError = "Failed to contribute (permissions).",
                                                                  ![r.c].contributeSubmitting = FALSE] ELSE tripsScreen
          /\ UNCHANGED <<tripDocs, contributed>>
  /\ UNCHANGED <<user, bucketDocs, listeners, bucketsScreen, tripDetail, createTrip,
                 homeScreen, console, issued, authCtx>>

\* TripDetailScreen.contribute(amt) up to its await
contribute(c, amt) ==
  /\ user[c] # Null
  /\ tripDetail[c].trip.id # 0
  /\ mayContribute(c)
  /\ tripDetail' = [tripDetail EXCEPT ![c].submitting = TRUE, ![c].error = Null]
  /\ send([NoReq EXCEPT !.c = c, !.h = "contribute", !.uid = user[c],
                        !.id = tripDetail[c].trip.id, !.amount = Fin(amt)])
  /\ issued' = [issued EXCEPT ![c] = @ + 1]
  /\ UNCHANGED <<user, bucketDocs, tripDocs, listeners, bucketsScreen, tripsScreen,
                 createTrip, homeScreen, console, contributed, authCtx>>

\* The detail screen that called contribute is the one on top: a trip opened
\* since is another screen with its own state.
onScreen(r) == mounted(r) /\ tripDetail[r.c].tripId = r.id

\* contribute after the await: catch sets the error, finally clears submitting
contributeSettled(r, ok) ==
  /\ r.h = "contribute"
  /\ settled(r)
  /\ IF ok /\ tripDocs[r.id].exists
     THEN /\ applyIncrement(r)
          /\ tripDetail' = IF onScreen(r) THEN [tripDetail EXCEPT ![r.c].submitting = FALSE] ELSE tripDetail
     ELSE /\ tripDetail' = IF onScreen(r) THEN [tripDetail EXCEPT ![r.c].error = "Failed to contribute (permissions).",
                                                                 ![r.c].submitting = FALSE] ELSE tripDetail
          /\ UNCHANGED <<tripDocs, contributed>>
  /\ UNCHANGED <<user, bucketDocs, listeners, bucketsScreen, tripsScreen, createTrip,
                 homeScreen, console, issued, authCtx>>

\* ------------------------------------------- BucketsScreen: create/edit/delete
\* Ids never used so far; the store hands out the smallest one.
freeBucketIds == {i \in BucketIds : ~bucketDocs[i].exists /\ ~bucketDocs[i].deleted}
freeTripIds == {i \in TripIds : ~tripDocs[i].exists /\ ~tripDocs[i].deleted}
min(S) == CHOOSE i \in S : \A j \in S : i <= j
pendingAdds(hs) == BagCardinality([r \in {q \in InFlight : q.h \in hs} |-> pending[r]])
\* Room for one more addDoc within the bounds of the model.
canAddBucket == canSend /\ pendingAdds({"onAddBucket"}) < Cardinality(freeBucketIds)
canAddTrip == canSend /\ pendingAdds({"onCreateTrip", "onSave"}) < Cardinality(freeTripIds)

\* Create dialog: onChangeText of the three inputs
setName(c, v) ==
  /\ bucketsScreen' = [bucketsScreen EXCEPT ![c].name = v]
  /\ UNCHANGED <<user, bucketDocs, tripDocs, pending, listeners, tripsScreen, tripDetail,
                 createTrip, homeScreen, console, issued, contributed, authCtx>>

setTarget(c, v) ==
  /\ bucketsScreen' = [bucketsScreen EXCEPT ![c].target = v]
  /\ UNCHANGED <<user, bucketDocs, tripDocs, pending, listeners, tripsScreen, tripDetail,
                 createTrip, homeScreen, console, issued, contributed, authCtx>>

setBalance(c, v) ==
  /\ bucketsScreen' = [bucketsScreen EXCEPT ![c].balance = v]
  /\ UNCHANGED <<user, bucketDocs, tripDocs, pending, listeners, tripsScreen, tripDetail,
                 createTrip, homeScreen, console, issued, contributed, authCtx>>

\* BucketsScreen.closeCreate (Cancel / onDismiss of the create dialog)
closeCreate(c) ==
  /\ bucketsScreen' = [bucketsScreen EXCEPT ![c].name = <<>>, ![c].target = <<>>,
                                           ![c].balance = <<>>]
  /\ UNCHANGED <<user, bucketDocs, tripDocs, pending, listeners, tripsScreen, tripDetail,
                 createTrip, homeScreen, console, issued, contributed, authCtx>>

\* onAddBucket: setSubmitting(true) and addDoc with the given name
addDocCall(c, name, t, b) ==
  /\ canAddBucket
  /\ bucketsScreen' = [bucketsScreen EXCEPT ![c].submitting = TRUE]
  /\ send([NoReq EXCEPT !.c = c, !.h = "onAddBucket", !.uid = user[c],
                        !.name = name, !.target = t, !.balance = b,
                        !.typed = <<bucketsScreen[c].name, bucketsScreen[c].target>>])

\* onAddBucket storing the name as typed, without trim()
onAddBucketNoTrim(c) ==
  /\ user[c] # Null
  /\ LET t == Number(bucketsScreen[c].target)
         b == IF bucketsScreen[c].balance # <<>> THEN Number(bucketsScreen[c].balance) ELSE Zero
     IN  /\ ~(~isFinite(t) \/ le0(t))
         /\ ~(~isFinite(b) \/ lt0(b))
         /\ addDocCall(c, bucketsScreen[c].name, t, b)
  /\ UNCHANGED <<user, bucketDocs, tripDocs, listeners, tripsScreen, tripDetail, createTrip,
                 homeScreen, console, issued, contributed, authCtx>>

\* BucketsScreen.onAddBucket up to its await.  The two validation returns
\* change nothing, so the step exists only for input that passes them.
onAddBucket(c) ==
  /\ user[c] # Null
  /\ LET t == Number(bucketsScreen[c].target)
         b == IF bucketsScreen[c].balance # <<>> THEN Number(bucketsScreen[c].balance) ELSE Zero
     IN  /\ ~(~isFinite(t) \/ le0(t))
         /\ ~(~isFinite(b) \/ lt0(b))
         /\ addDocCall(c, trim(bucketsScreen[c].name), t, b)
  /\ UNCHANGED <<user, bucketDocs, tripDocs, listeners, tripsScreen, tripDetail, createTrip,
                 homeScreen, console, issued, contributed, authCtx>>

\* onAddBucket after the await: closeCreate / catch, then finally
onAddBucketSettled(r, ok) ==
  /\ r.h = "onAddBucket"
  /\ settled(r)
  /\ IF ok
     THEN /\ bucketDocs' = [bucketDocs EXCEPT ![min(freeBucketIds)] =
                 [exists |-> TRUE, deleted |-> FALSE, name |-> r.name,
                  target |-> r.target, balance |-> r.balance, color |-> COLORS[1],
                  ownerId |-> r.uid, memberIds |-> {r.uid}]]
          /\ bucketsScreen' = IF mounted(r) THEN [bucketsScreen EXCEPT ![r.c].name = <<>>,
                                                                      ![r.c].target = <<>>,
                                                                      ![r.c].balance = <<>>,
                                                                      ![r.c].submitting = FALSE] ELSE bucketsScreen
     ELSE /\ bucketsScreen' = IF mounted(r) THEN [bucketsScreen EXCEPT ![r.c].submitting = FALSE] ELSE bucketsScreen
          /\ UNCHANGED bucketDocs
  /\ UNCHANGED <<user, tripDocs, listeners, tripsScreen, tripDetail, createTrip, homeScreen,
                 console, issued, contributed, authCtx>>

\* BucketsScreen.startEdit(b) and startDelete(b): both set editing
startEdit(c, b) ==
  /\ bucketsScreen' = [bucketsScreen EXCEPT ![c].editing = b]
  /\ UNCHANGED <<user, bucketDocs, tripDocs, pending, listeners, tripsScreen, tripDetail,
                 createTrip, homeScreen, console, issued, contributed, authCtx>>

startDelete(c, b) ==
  /\ bucketsScreen' = [bucketsScreen EXCEPT ![c].editing = b]
  /\ UNCHANGED <<user, bucketDocs, tripDocs, pending, listeners, tripsScreen, tripDetail,
                 createTrip, homeScreen, console, issued, contributed, authCtx>>

\* BucketsScreen.closeEdit and closeDelete
closeEdit(c) ==
  /\ bucketsScreen[c].editing.id # 0
  /\ bucketsScreen' = [bucketsScreen EXCEPT ![c].editing = NoBucket]
  /\ UNCHANGED <<user, bucketDocs, tripDocs, pending, listeners, tripsScreen, tripDetail,
                 createTrip, homeScreen, console, issued, contributed, authCtx>>

\* Edit dialog: onChangeText of name, target and balance
editName(c, v) ==
  /\ bucketsScreen[c].editing.id # 0
  /\ bucketsScreen' = [bucketsScreen EXCEPT ![c].editing.name = v]
  /\ UNCHANGED <<user, bucketDocs, tripDocs, pending, listeners, tripsScreen, tripDetail,
                 createTrip, homeScreen, console, issued, contributed, authCtx>>

editTarget(c, v) ==
  /\ bucketsScreen[c].editing.id # 0
  /\ bucketsScreen' = [bucketsScreen EXCEPT ![c].editing.target = orZero(Number(v))]
  /\ UNCHANGED <<user, bucketDocs, tripDocs, pending, listeners, tripsScreen, tripDetail,
                 createTrip, homeScreen, console, issued, contributed, authCtx>>

editBalance(c, v) ==
  /\ bucketsScreen[c].editing.id # 0
  /\ bucketsScreen' = [bucketsScreen EXCEPT ![c].editing.balance = orZero(Number(v))]
  /\ UNCHANGED <<user, bucketDocs, tripDocs, pending, listeners, tripsScreen, tripDetail,
                 createTrip, homeScreen, console, issued, contributed, authCtx>>

\* An onSaveEdit that does not check the balance
onSaveEditNoBalanceCheck(c) ==
  /\ user[c] # Null
  /\ bucketsScreen[c].editing.id # 0
  /\ LET editing == bucketsScreen[c].editing
         t == editing.target
         b == editing.balance
     IN  /\ ~(~isFinite(t) \/ le0(t))
         /\ canSend
         /\ bucketsScreen' = [bucketsScreen EXCEPT ![c].submitting = TRUE]
         /\ send([NoReq EXCEPT !.c = c, !.h = "onSaveEdit", !.uid = user[c],
                               !.id = editing.id, !.name = trim(editing.name),
                               !.target = t, !.balance = b])
  /\ UNCHANGED <<user, bucketDocs, tripDocs, listeners, tripsScreen, tripDetail, createTrip,
                 homeScreen, console, issued, contributed, authCtx>>

\* BucketsScreen.onSaveEdit up to its await
onSaveEdit(c) ==
  /\ user[c] # Null
  /\ bucketsScreen[c].editing.id # 0
  /\ LET editing == bucketsScreen[c].editing
         t == editing.target
         b == editing.balance
     IN  /\ ~(~isFinite(t) \/ le0(t))
         /\ ~(~isFinite(b) \/ lt0(b))
         /\ canSend
         /\ bucketsScreen' = [bucketsScreen EXCEPT ![c].submitting = TRUE]
         /\ send([NoReq EXCEPT !.c = c, !.h = "onSaveEdit", !.uid = user[c],
                               !.id = editing.id, !.name = trim(editing.name),
                               !.target = t, !.balance = b])
  /\ UNCHANGED <<user, bucketDocs, tripDocs, listeners, tripsScreen, tripDetail, createTrip,
                 homeScreen, console, issued, contributed, authCtx>>

\* onSaveEdit after the await: closeEdit / catch, then finally
onSaveEditSettled(r, ok) ==
  /\ r.h = "onSaveEdit"
  /\ settled(r)
  /\ IF ok /\ bucketDocs[r.id].exists
     THEN /\ bucketDocs' = [bucketDocs EXCEPT ![r.id].name = r.name,
                                             ![r.id].target = r.target,
                                             ![r.id].balance = r.balance]
          /\ bucketsScreen' = IF mounted(r) THEN [bucketsScreen EXCEPT ![r.c].editing = NoBucket,
                                                                      ![r.c].submitting = FALSE] ELSE bucketsScreen
     ELSE /\ bucketsScreen' = IF mounted(r) THEN [bucketsScreen EXCEPT ![r.c].submitting = FALSE] ELSE bucketsScreen
          /\ UNCHANGED bucketDocs
  /\ UNCHANGED <<user, tripDocs, listeners, tripsScreen, tripDetail, createTrip, homeScreen,
                 console, issued, contributed, authCtx>>

\* onConfirmDelete: setSubmitting(true) and the try block up to await deleteDoc
deleteDocCall(c) ==
  /\ canSend
  /\ bucketsScreen' = [bucketsScreen EXCEPT ![c].submitting = TRUE]
  /\ send([NoReq EXCEPT !.c = c, !.h = "onConfirmDelete", !.uid = user[c],
                        !.id = bucketsScreen[c].editing.id])
  /\ UNCHANGED console

\* onConfirmDelete with the owner check left out
onConfirmDeleteNoOwnerCheck(c) ==
  /\ user[c] # Null
  /\ bucketsScreen[c].editing.id # 0
  /\ deleteDocCall(c)
  /\ UNCHANGED <<user, bucketDocs, tripDocs, listeners, tripsScreen, tripDetail, createTrip,
                 homeScreen, issued, contributed, authCtx>>

\* BucketsScreen.onConfirmDelete up to its await.  For a non-owner the try
\* block returns before the call and finally releases submitting.
onConfirmDelete(c) ==
  /\ user[c] # Null
  /\ bucketsScreen[c].editing.id # 0
  /\ IF bucketsScreen[c].editing.ownerId # user[c]
     THEN /\ console' = [console EXCEPT ![c] = "Only the owner can delete this bucket."]
          /\ bucketsScreen' = [bucketsScreen EXCEPT ![c].submitting = FALSE]
          /\ UNCHANGED pending
     ELSE deleteDocCall(c)
  /\ UNCHANGED <<user, bucketDocs, tripDocs, listeners, tripsScreen, tripDetail, createTrip,
                 homeScreen, issued, contributed, authCtx>>

\* A delete that takes the bucket out of the local list itself
onConfirmDeleteSettledOptimistic(r, ok) ==
  /\ r.h = "onConfirmDelete"
  /\ settled(r)
  /\ IF ok
     THEN /\ bucketDocs' = [bucketDocs EXCEPT ![r.id] = [NoDoc EXCEPT !.deleted = TRUE]]
          /\ bucketsScreen' = IF mounted(r) THEN [bucketsScreen EXCEPT ![r.c].editing = NoBucket,
                                                                      ![r.c].submitting = FALSE,
                                                                      ![r.c].buckets = SelectSeq(@, LAMBDA b : b.id # r.id)] ELSE bucketsScreen
     ELSE /\ bucketsScreen' = IF mounted(r) THEN [bucketsScreen EXCEPT ![r.c].submitting = FALSE] ELSE bucketsScreen
          /\ UNCHANGED bucketDocs
  /\ UNCHANGED <<user, tripDocs, listeners, tripsScreen, tripDetail, createTrip, homeScreen,
                 console, issued, contributed, authCtx>>

\* onConfirmDelete after the await: closeDelete / catch, then finally
onConfirmDeleteSettled(r, ok) ==
  /\ r.h = "onConfirmDelete"
  /\ settled(r)
  /\ IF ok
     THEN /\ bucketDocs' = [bucketDocs EXCEPT ![r.id] = [NoDoc EXCEPT !.deleted = TRUE]]
          /\ bucketsScreen' = IF mounted(r) THEN [bucketsScreen EXCEPT ![r.c].editing = NoBucket,
                                                                      ![r.c].submitting = FALSE] ELSE bucketsScreen
     ELSE /\ bucketsScreen' = IF mounted(r) THEN [bucketsScreen EXCEPT ![r.c].submitting = FALSE] ELSE bucketsScreen
          /\ UNCHANGED bucketDocs
  /\ UNCHANGED <<user, tripDocs, listeners, tripsScreen, tripDetail, createTrip, homeScreen,
                 console, issued, contributed, authCtx>>

\* ---------------------------------------------------- BucketsScreen: members
\* user.email of every registered principal (Firebase Auth)
EmailOf ==
  [u \in Users |->
     CASE u = "u1" -> <<"a", "@", "x", ".", "i", "o">>
       [] u = "u2" -> <<"b", "@", "x", ".", "i", "o">>
       [] OTHER -> <<"c", "@", "x", ".", "i", "o">>]

MinEmailLen == 6

\* buckets.tsx isValidInviteEmail
isValidInviteEmail(email) ==
  LET e == toLowerCase(trim(email))
  IN  includes(e, "@") /\ includes(e, ".") /\ Len(e) >= MinEmailLen

\* A lookup with the e-mail check before the auth check
lookupUserByEmailEmailFirst(auth, emailRaw) ==
  LET email == toLowerCase(trim(emailRaw)) IN
    IF email = <<>> THEN [code |-> "invalid-argument", uid |-> "", email |-> <<>>]
    ELSE IF ~auth THEN [code |-> "unauthenticated", uid |-> "", email |-> <<>>]
    ELSE IF \E u \in Users : EmailOf[u] = email
         THEN [code |-> "ok", uid |-> CHOOSE u \in Users : EmailOf[u] = email, email |-> email]
         ELSE [code |-> "not-found", uid |-> "", email |-> <<>>]

\* Cloud function lookupUserByEmail: the result or the HttpsError code.
lookupUserByEmail(auth, emailRaw) ==
  LET email == toLowerCase(trim(emailRaw)) IN
    IF ~auth THEN [code |-> "unauthenticated", uid |-> "", email |-> <<>>]
    ELSE IF email = <<>> THEN [code |-> "invalid-argument", uid |-> "", email |-> <<>>]
    ELSE IF \E u \in Users : EmailOf[u] = email
         THEN [code |-> "ok", uid |-> CHOOSE u \in Users : EmailOf[u] = email, email |-> email]
         ELSE [code |-> "not-found", uid |-> "", email |-> <<>>]

\* BucketsScreen.openMembers(b)
openMembers(c, b) ==
  /\ bucketsScreen' = [bucketsScreen EXCEPT ![c].membersBucket = b,
                                           ![c].inviteEmail = <<>>,
                                           ![c].membersError = Null]
  /\ UNCHANGED <<user, bucketDocs, tripDocs, pending, listeners, tripsScreen, tripDetail,
                 createTrip, homeScreen, console, issued, contributed, authCtx>>

\* BucketsScreen.closeMembers
closeMembers(c) ==
  /\ bucketsScreen[c].membersBucket.id # 0
  /\ bucketsScreen' = [bucketsScreen EXCEPT ![c].membersBucket = NoBucket,
                                           ![c].inviteEmail = <<>>,
                                           ![c].membersError = Null]
  /\ UNCHANGED <<user, bucketDocs, tripDocs, pending, listeners, tripsScreen, tripDetail,
                 createTrip, homeScreen, console, issued, contributed, authCtx>>

\* Members dialog: onChangeText of the invite input
setInviteEmail(c, v) ==
  /\ bucketsScreen[c].membersBucket.id # 0
  /\ bucketsScreen' = [bucketsScreen EXCEPT ![c].inviteEmail = v,
                                           ![c].membersError = Null]
  /\ UNCHANGED <<user, bucketDocs, tripDocs, pending, listeners, tripsScreen, tripDetail,
                 createTrip, homeScreen, console, issued, contributed, authCtx>>

setMembersError(c, msg) ==
  bucketsScreen' = [bucketsScreen EXCEPT ![c].membersError = msg]

\* try entered: setMembersSubmitting(true); setMembersError(null)
membersBusy(c) ==
  bucketsScreen' = [bucketsScreen EXCEPT ![c].membersSubmitting = TRUE,
                                        ![c].membersError = Null]

\* The handler ends with this error (Null: none set), then finally.
membersDone(c, msg) ==
  bucketsScreen' =
    IF c = Unmounted THEN bucketsScreen
    ELSE [bucketsScreen EXCEPT ![c].membersSubmitting = FALSE,
                               ![c].membersError = IF msg = Null THEN @ ELSE msg]

\* inviteMemberByEmail: the try block up to await lookup({ email })
inviteLookupCall(c, email) ==
  LET membersBucket == bucketsScreen[c].membersBucket IN
    /\ canSend
    /\ membersBusy(c)
    /\ send([NoReq EXCEPT !.c = c, !.h = "inviteLookup", !.uid = user[c],
                          !.id = membersBucket.id, !.email = email,
                          !.members = membersBucket.memberIds,
                          !.stored = bucketDocs[membersBucket.id].memberIds])

\* inviteMemberByEmail with the owner check left out
inviteMemberByEmailNoOwnerCheck(c) ==
  /\ user[c] # Null
  /\ bucketsScreen[c].membersBucket.id # 0
  /\ LET email == toLowerCase(trim(bucketsScreen[c].inviteEmail))
     IN  IF ~isValidInviteEmail(email)
         THEN setMembersError(c, "Enter a valid email.") /\ UNCHANGED pending
         ELSE IF toLowerCase(EmailOf[user[c]]) = email
         THEN setMembersError(c, "You can't invite yourself.") /\ UNCHANGED pending
         ELSE inviteLookupCall(c, email)
  /\ UNCHANGED <<user, bucketDocs, tripDocs, listeners, tripsScreen, tripDetail, createTrip,
                 homeScreen, console, issued, contributed, authCtx>>

\* BucketsScreen.inviteMemberByEmail up to the await of the lookup
inviteMemberByEmail(c) ==
  /\ user[c] # Null
  /\ bucketsScreen[c].membersBucket.id # 0
  /\ LET membersBucket == bucketsScreen[c].membersBucket
         email == toLowerCase(trim(bucketsScreen[c].inviteEmail))
     IN  IF ~isValidInviteEmail(email)
         THEN setMembersError(c, "Enter a valid email.") /\ UNCHANGED pending
         ELSE IF toLowerCase(EmailOf[user[c]]) = email
         THEN setMembersError(c, "You can't invite yourself.") /\ UNCHANGED pending
         ELSE IF membersBucket.ownerId # user[c]
         THEN setMembersError(c, "Only the bucket owner can add members.") /\ UNCHANGED pending
         ELSE inviteLookupCall(c, email)
  /\ UNCHANGED <<user, bucketDocs, tripDocs, listeners, tripsScreen, tripDetail, createTrip,
                 homeScreen, console, issued, contributed, authCtx>>

\* inviteMemberByEmail from the lookup's result to the await of updateDoc, or
\* to its end when the lookup fails or a check on the result returns.
inviteLookupSettled(r, ok) ==
  /\ r.h = "inviteLookup"
  /\ LET res == lookupUserByEmail(TRUE, r.email)
         uid == res.uid
     IN  IF ~ok \/ res.code # "ok"
         THEN /\ membersDone(r.c, "Invite failed. Double-check the email and try again.")
              /\ settled(r)
         ELSE IF uid = ""
         THEN /\ membersDone(r.c, "Could not find a user for that email.")
              /\ settled(r)
         ELSE IF uid \in r.members
         THEN /\ membersDone(r.c, "That user is already a member of this bucket.")
              /\ settled(r)
         ELSE /\ settledThenSend(r, [NoReq EXCEPT !.c = r.c, !.h = "inviteUpdate",
                                                  !.uid = r.uid, !.id = r.id,
                                                  !.member = uid, !.stored = r.stored])
              /\ UNCHANGED bucketsScreen
  /\ UNCHANGED <<user, bucketDocs, tripDocs, listeners, tripsScreen, tripDetail, createTrip,
                 homeScreen, console, issued, contributed, authCtx>>

\* inviteMemberByEmail after updateDoc({memberIds: arrayUnion(uid)})
inviteUpdateSettled(r, ok) ==
  /\ r.h = "inviteUpdate"
  /\ settled(r)
  /\ IF ok /\ bucketDocs[r.id].exists
     THEN /\ bucketDocs' = [bucketDocs EXCEPT ![r.id].memberIds = @ \cup {r.member}]
          /\ bucketsScreen' = IF mounted(r) THEN [bucketsScreen EXCEPT ![r.c].inviteEmail = <<>>,
                                                                      ![r.c].membersSubmitting = FALSE] ELSE bucketsScreen
     ELSE /\ membersDone(r.c, "Invite failed. Double-check the email and try again.")
          /\ UNCHANGED bucketDocs
  /\ UNCHANGED <<user, tripDocs, listeners, tripsScreen, tripDetail, createTrip, homeScreen,
                 console, issued, contributed, authCtx>>

\* removeMember: the try block up to await updateDoc
removeMemberCall(c, uidToRemove) ==
  /\ canSend
  /\ membersBusy(c)
  /\ send([NoReq EXCEPT !.c = c, !.h = "removeMember", !.uid = user[c],
                        !.id = bucketsScreen[c].membersBucket.id,
                        !.member = uidToRemove])

\* removeMember with the caller-is-owner check left out
removeMemberNoOwnerCheck(c, uidToRemove) ==
  /\ user[c] # Null
  /\ bucketsScreen[c].membersBucket.id # 0
  /\ IF uidToRemove = bucketsScreen[c].membersBucket.ownerId
     THEN setMembersError(c, "Owner cannot be removed.") /\ UNCHANGED pending
     ELSE removeMemberCall(c, uidToRemove)
  /\ UNCHANGED <<user, bucketDocs, tripDocs, listeners, tripsScreen, tripDetail, createTrip,
                 homeScreen, console, issued, contributed, authCtx>>

\* removeMember with the owner-cannot-be-removed check left out
removeMemberAnyTarget(c, uidToRemove) ==
  /\ user[c] # Null
  /\ bucketsScreen[c].membersBucket.id # 0
  /\ IF bucketsScreen[c].membersBucket.ownerId # user[c]
     THEN setMembersError(c, "Only the bucket owner can remove members.") /\ UNCHANGED pending
     ELSE removeMemberCall(c, uidToRemove)
  /\ UNCHANGED <<user, bucketDocs, tripDocs, listeners, tripsScreen, tripDetail, createTrip,
                 homeScreen, console, issued, contributed, authCtx>>

\* BucketsScreen.removeMember(uidToRemove) up to its await
removeMember(c, uidToRemove) ==
  /\ user[c] # Null
  /\ bucketsScreen[c].membersBucket.id # 0
  /\ LET membersBucket == bucketsScreen[c].membersBucket IN
       IF membersBucket.ownerId # user[c]
       THEN setMembersError(c, "Only the bucket owner can remove members.") /\ UNCHANGED pending
       ELSE IF uidToRemove = membersBucket.ownerId
       THEN setMembersError(c, "Owner cannot be removed.") /\ UNCHANGED pending
       ELSE removeMemberCall(c, uidToRemove)
  /\ UNCHANGED <<user, bucketDocs, tripDocs, listeners, tripsScreen, tripDetail, createTrip,
                 homeScreen, console, issued, contributed, authCtx>>

\* removeMember after updateDoc({memberIds: arrayRemove(uidToRemove)})
removeMemberSettled(r, ok) ==
  /\ r.h = "removeMember"
  /\ settled(r)
  /\ IF ok /\ bucketDocs[r.id].exists
     THEN /\ bucketDocs' = [bucketDocs EXCEPT ![r.id].memberIds = @ \ {r.member}]
          /\ membersDone(r.c, Null)
     ELSE /\ membersDone(r.c, "Failed to remove member.")
          /\ UNCHANGED bucketDocs
  /\ UNCHANGED <<user, tripDocs, listeners, tripsScreen, tripDetail, createTrip, homeScreen,
                 console, issued, contributed, authCtx>>

\* leaveBucket: the try block up to await updateDoc
leaveBucketCall(c) ==
  /\ canSend
  /\ membersBusy(c)
  /\ send([NoReq EXCEPT !.c = c, !.h = "leaveBucket", !.uid = user[c],
                        !.id = bucketsScreen[c].membersBucket.id,
                        !.member = user[c]])

\* leaveBucket with the owner check left out
leaveBucketNoOwnerCheck(c) ==
  /\ user[c] # Null
  /\ bucketsScreen[c].membersBucket.id # 0
  /\ leaveBucketCall(c)
  /\ UNCHANGED <<user, bucketDocs, tripDocs, listeners, tripsScreen, tripDetail, createTrip,
                 homeScreen, console, issued, contributed, authCtx>>

\* BucketsScreen.leaveBucket up to its await
leaveBucket(c) ==
  /\ user[c] # Null
  /\ bucketsScreen[c].membersBucket.id # 0
  /\ IF bucketsScreen[c].membersBucket.ownerId = user[c]
     THEN setMembersError(c, "Owners can't leave. Transfer ownership later.") /\ UNCHANGED pending
     ELSE leaveBucketCall(c)
  /\ UNCHANGED <<user, bucketDocs, tripDocs, listeners, tripsScreen, tripDetail, createTrip,
                 homeScreen, console, issued, contributed, authCtx>>

\* leaveBucket after updateDoc({memberIds: arrayRemove(user.uid)}): closeMembers
leaveBucketSettled(r, ok) ==
  /\ r.h = "leaveBucket"
  /\ settled(r)
  /\ IF ok /\ bucketDocs[r.id].exists
     THEN /\ bucketDocs' = [bucketDocs EXCEPT ![r.id].memberIds = @ \ {r.member}]
          /\ bucketsScreen' = IF mounted(r) THEN [bucketsScreen EXCEPT ![r.c].membersBucket = NoBucket,
                                                                      ![r.c].inviteEmail = <<>>,
                                                                      ![r.c].membersError = Null,
                                                                      ![r.c].membersSubmitting = FALSE] ELSE bucketsScreen
     ELSE /\ membersDone(r.c, "Failed to leave bucket.")
          /\ UNCHANGED bucketDocs
  /\ UNCHANGED <<user, tripDocs, listeners, tripsScreen, tripDetail, createTrip, homeScreen,
                 console, issued, contributed, authCtx>>

\* ------------------------------------------------------------ creating trips
\* Create Trip dialog of TripsScreen: onChangeText of title and target
setTitle(c, v) ==
  /\ tripsScreen' = [tripsScreen EXCEPT ![c].title = v, ![c].createError = Null]
  /\ UNCHANGED <<user, bucketDocs, tripDocs, pending, listeners, bucketsScreen, tripDetail,
                 createTrip, homeScreen, console, issued, contributed, authCtx>>

tripsSetTarget(c, v) ==
  /\ tripsScreen' = [tripsScreen EXCEPT ![c].target = v, ![c].createError = Null]
  /\ UNCHANGED <<user, bucketDocs, tripDocs, pending, listeners, bucketsScreen, tripDetail,
                 createTrip, homeScreen, console, issued, contributed, authCtx>>

\* The document both trip create handlers pass to addDoc.
newTripDoc(r) ==
  [exists |-> TRUE, deleted |-> FALSE, title |-> r.name, target |-> r.target,
   saved |-> Zero, ownerId |-> r.uid, memberIds |-> {r.uid}]

\* router.push / router.replace to /(tabs)/trips/[tripId]: the detail screen
\* mounts for that trip and its effect opens the document listener.
openTrip(c, tripId) ==
  /\ tripDetail' = [tripDetail EXCEPT ![c] = TripDetailInit(tripId)]
  /\ listeners' = [listeners EXCEPT ![c].detail = "subscribing"]



\* The contribute requests of client c's detail screen go on without it.
orphanedDetail(c) ==
  BagOfAll(LAMBDA r : IF r.c = c /\ r.h = "contribute" THEN [r EXCEPT !.c = Unmounted] ELSE r,
           pending)

\* Trip card onPress: a new detail screen; the calls of the one before go on
\* without it.
onPressTrip(c, t) ==
  /\ openTrip(c, t.id)
  /\ pending' = orphanedDetail(c)
  /\ UNCHANGED <<user, bucketDocs, tripDocs, bucketsScreen, tripsScreen, createTrip,
                 homeScreen, console, issued, contributed, authCtx>>

\* The trip route opened with any tripId as its parameter (a link)
openTripRoute(c, tripId) ==
  /\ user[c] # Null
  /\ openTrip(c, tripId)
  /\ pending' = orphanedDetail(c)
  /\ UNCHANGED <<user, bucketDocs, tripDocs, bucketsScreen, tripsScreen, createTrip,
                 homeScreen, console, issued, contributed, authCtx>>

\* TripDetailScreen Back: router.back() unmounts the screen, the cleanup of
\* its listener effect calls unsub().
goBack(c) ==
  /\ listeners[c].detail # "off"
  /\ listeners' = [listeners EXCEPT ![c].detail = "off"]
  /\ tripDetail' = [tripDetail EXCEPT ![c] = TripDetailInit(tripDetail[c].tripId)]
  /\ pending' = orphanedDetail(c)
  /\ UNCHANGED <<user, bucketDocs, tripDocs, bucketsScreen, tripsScreen, createTrip,
                 homeScreen, console, issued, contributed, authCtx>>

\* TripsScreen.onCreateTrip up to its await
onCreateTrip(c) ==
  /\ user[c] # Null
  /\ LET t == Number(tripsScreen[c].target) IN
       IF trim(tripsScreen[c].title) = <<>>
       THEN /\ tripsScreen' = [tripsScreen EXCEPT ![c].createError = "Please enter a trip name."]
            /\ UNCHANGED pending
       ELSE IF ~isFinite(t) \/ le0(t)
       THEN /\ tripsScreen' = [tripsScreen EXCEPT ![c].createError = "Target must be a number greater than 0."]
            /\ UNCHANGED pending
       ELSE /\ canAddTrip
            /\ tripsScreen' = [tripsScreen EXCEPT ![c].creating = TRUE,
                                                 ![c].createError = Null]
            /\ send([NoReq EXCEPT !.c = c, !.h = "onCreateTrip", !.uid = user[c],
                                  !.name = trim(tripsScreen[c].title), !.target = t,
                                  !.typed = <<tripsScreen[c].title, tripsScreen[c].target>>])
  /\ UNCHANGED <<user, bucketDocs, tripDocs, listeners, bucketsScreen, tripDetail,
                 createTrip, homeScreen, console, issued, contributed, authCtx>>

\* onCreateTrip after the await: closeCreate and openTrip / catch, then finally
onCreateTripSettled(r, ok) ==
  /\ r.h = "onCreateTrip"
  /\ settled(r)
  /\ IF ok
     THEN /\ tripDocs' = [tripDocs EXCEPT ![min(freeTripIds)] = newTripDoc(r)]
          /\ tripsScreen' = IF mounted(r) THEN [tripsScreen EXCEPT ![r.c].title = <<>>,
                                                                  ![r.c].target = <<>>,
                                                                  ![r.c].createError = Null,
                                                                  ![r.c].creating = FALSE] ELSE tripsScreen
          /\ IF mounted(r) THEN openTrip(r.c, min(freeTripIds))
             ELSE UNCHANGED <<tripDetail, listeners>>
     ELSE /\ tripsScreen' = IF mounted(r) THEN [tripsScreen EXCEPT ![r.c].createError = "Failed to create trip (permissions).",
                                                                  ![r.c].creating = FALSE] ELSE tripsScreen
          /\ UNCHANGED <<tripDocs, tripDetail, listeners>>
  /\ UNCHANGED <<user, bucketDocs, bucketsScreen, createTrip, homeScreen, console, issued,
                 contributed, authCtx>>

\* CreateTripScreen: onChangeText of title and target
createTripSetTitle(c, v) ==
  /\ createTrip' = [createTrip EXCEPT ![c].title = v, ![c].error = Null]
  /\ UNCHANGED <<user, bucketDocs, tripDocs, pending, listeners, bucketsScreen, tripsScreen,
                 tripDetail, homeScreen, console, issued, contributed, authCtx>>

createTripSetTarget(c, v) ==
  /\ createTrip' = [createTrip EXCEPT ![c].target = v, ![c].error = Null]
  /\ UNCHANGED <<user, bucketDocs, tripDocs, pending, listeners, bucketsScreen, tripsScreen,
                 tripDetail, homeScreen, console, issued, contributed, authCtx>>

\* CreateTripScreen.onSave up to its await
onSave(c) ==
  /\ user[c] # Null
  /\ LET t == Number(createTrip[c].target) IN
       IF trim(createTrip[c].title) = <<>>
       THEN /\ createTrip' = [createTrip EXCEPT ![c].error = "Please enter a trip name."]
            /\ UNCHANGED pending
       ELSE IF ~isFinite(t) \/ le0(t)
       THEN /\ createTrip' = [createTrip EXCEPT ![c].error = "Target must be a number greater than 0."]
            /\ UNCHANGED pending
       ELSE /\ canAddTrip
            /\ createTrip' = [createTrip EXCEPT ![c].submitting = TRUE, ![c].error = Null]
            /\ send([NoReq EXCEPT !.c = c, !.h = "onSave", !.uid = user[c],
                                  !.name = trim(createTrip[c].title), !.target = t,
                                  !.typed = <<createTrip[c].title, createTrip[c].target>>])
  /\ UNCHANGED <<user, bucketDocs, tripDocs, listeners, bucketsScreen, tripsScreen,
                 tripDetail, homeScreen, console, issued, contributed, authCtx>>

\* onSave after the await: router.replace to the new trip (the create screen
\* is gone, a later visit mounts it afresh) / catch, then finally
onSaveSettled(r, ok) ==
  /\ r.h = "onSave"
  /\ settled(r)
  /\ IF ok
     THEN /\ tripDocs' = [tripDocs EXCEPT ![min(freeTripIds)] = newTripDoc(r)]
          /\ createTrip' = IF mounted(r) THEN [createTrip EXCEPT ![r.c] = CreateTripInit] ELSE createTrip
          /\ IF mounted(r) THEN openTrip(r.c, min(freeTripIds))
             ELSE UNCHANGED <<tripDetail, listeners>>
     ELSE /\ createTrip' = IF mounted(r) THEN [createTrip EXCEPT ![r.c].error = "Failed to create trip (permissions).",
                                                                ![r.c].submitting = FALSE] ELSE createTrip
          /\ UNCHANGED <<tripDocs, tripDetail, listeners>>
  /\ UNCHANGED <<user, bucketDocs, bucketsScreen, tripsScreen, homeScreen, console, issued,
                 contributed, authCtx>>

\* ------------------------------------------------------------ specifications
\* The app right after install: nothing stored, every client signed in.
Init ==
  InitWith([i \in BucketIds |-> NoDoc], [i \in TripIds |-> NoTripDoc])

\* A bucket and a trip created by u1 (onAddBucket / onCreateTrip with target
\* 1000 and no starting balance) to which u1 has since invited everybody.
SharedBucketDoc ==
  [exists |-> TRUE, deleted |-> FALSE, name |-> <<"R", "e", "n", "t">>,
   target |-> Fin(1000), balance |-> Zero, color |-> COLORS[1],
   ownerId |-> "u1", memberIds |-> Clients]

SharedTripDoc ==
  [exists |-> TRUE, deleted |-> FALSE, title |-> <<"R", "i", "o">>,
   target |-> Fin(1000), saved |-> Zero, ownerId |-> "u1", memberIds |-> Clients]

InitShared ==
  InitWith([i \in BucketIds |-> IF i = 1 THEN SharedBucketDoc ELSE NoDoc],
           [i \in TripIds |-> IF i = 1 THEN SharedTripDoc ELSE NoTripDoc])

\* A request the step has put in flight.
issuedNow(r) == CopiesIn(r, pending') > CopiesIn(r, pending)
Issued == {r \in BagToSet(pending') : issuedNow(r)}

\* ---- contributions by several members of the same bucket and trip
NextContrib ==
  \/ \E c \in Clients : bucketsOnSnapshot(c)
  \/ \E c \in Clients : tripsOnSnapshot(c)
  \/ \E c \in Clients : tripDetailOnSnapshot(c)
  \/ \E c \in Clients : \E b \in elems(bucketsScreen[c].buckets) : \E a \in QuickAddAmounts :
       quickAdd(c, b, a)
  \/ \E c \in Clients : \E t \in elems(tripsScreen[c].trips) : \E a \in QuickContributeAmounts :
       quickContribute(c, t, a)
  \/ \E c \in Clients : \E a \in DetailContributeAmounts : contribute(c, a)
  \/ \E r \in InFlight : \E ok \in BOOLEAN : quickAddSettled(r, ok)
  \/ \E r \in InFlight : \E ok \in BOOLEAN : quickContributeSettled(r, ok)
  \/ \E r \in InFlight : \E ok \in BOOLEAN : contributeSettled(r, ok)

SpecContrib == InitShared /\ [][NextContrib]_vars

\* No contribution request is in flight for the resource.
noPendingFor(h, i) == \A r \in InFlight : ~(r.h \in h /\ r.id = i)

\* C1: contributions never lose updates: once every contribution issued
\* against a resource has settled, the stored balance equals the initial
\* balance (0 here) plus the sum of the amounts the store applied, for buckets
\* (quickAdd) and for trips (quickContribute, contribute).
C1_NoLostUpdates ==
  /\ \A i \in BucketIds :
       (bucketDocs[i].exists /\ noPendingFor({"quickAdd"}, i))
         => bucketDocs[i].balance = Fin(contributed.buckets[i])
  /\ \A i \in TripIds :
       (tripDocs[i].exists /\ noPendingFor({"quickContribute", "contribute"}, i))
         => tripDocs[i].saved = Fin(contributed.trips[i])

\* ---- listeners that fail while the store keeps changing
NextSync ==
  \/ \E c \in Clients : bucketsOnSnapshot(c)
  \/ \E c \in Clients : bucketsOnSnapshotError(c)
  \/ \E c \in Clients : tripsOnSnapshot(c)
  \/ \E c \in Clients : tripsOnSnapshotError(c)
  \/ \E c \in Clients : tripDetailOnSnapshot(c)
  \/ \E c \in Clients : tripDetailOnSnapshotError(c)
  \/ \E c \in Clients : \E t \in elems(tripsScreen[c].trips) : \E a \in QuickContributeAmounts :
       quickContribute(c, t, a)
  \/ \E r \in InFlight : \E ok \in BOOLEAN : quickContributeSettled(r, ok)

SpecSync == InitShared /\ [][NextSync]_vars

\* The step is the error callback of a listener: only that ends a listener.
listenerFails(c, l) == attached(listeners[c][l]) /\ listeners'[c][l] = "dead"

\* C2: a subscription error never clears data that was already loaded: the
\* error callback of the buckets list, the trips list and the trip detail
\* records a read error and leaves the loaded data as it was.
C2_ErrorKeepsLoadedData ==
  [][\A c \in Clients :
       /\ listenerFails(c, "buckets")
            => /\ bucketsScreen'[c].buckets = bucketsScreen[c].buckets
               /\ bucketsScreen'[c].readError # Null
       /\ listenerFails(c, "trips")
            => /\ tripsScreen'[c].trips = tripsScreen[c].trips
               /\ tripsScreen'[c].error # Null
       /\ listenerFails(c, "detail")
            => /\ tripDetail'[c].trip = tripDetail[c].trip
               /\ tripDetail'[c].error # Null]_vars

\* ---- editing the target of a bucket shared by an owner and a member
EditTargetInputs == {<<"5", "0", "0">>, <<"a", "b", "c">>}

NextEdit ==
  \/ \E c \in Clients : bucketsOnSnapshot(c)
  \/ \E c \in Clients : \E b \in elems(bucketsScreen[c].buckets) : startEdit(c, b)
  \/ \E c \in Clients : \E v \in EditTargetInputs : editTarget(c, v)
  \/ \E c \in Clients : onSaveEdit(c)
  \/ \E r \in InFlight : \E ok \in BOOLEAN : onSaveEditSettled(r, ok)
  \/ \E c \in Clients : closeEdit(c)

SpecEdit == InitShared /\ [][NextEdit]_vars

\* ---- deleting a bucket shared by an owner and a member
NextDelete ==
  \/ \E c \in Clients : bucketsOnSnapshot(c)
  \/ \E c \in Clients : \E b \in elems(bucketsScreen[c].buckets) : startDelete(c, b)
  \/ \E c \in Clients : onConfirmDelete(c)
  \/ \E r \in InFlight : \E ok \in BOOLEAN : onConfirmDeleteSettled(r, ok)
  \/ \E c \in Clients : closeEdit(c)

SpecDelete == InitShared /\ [][NextDelete]_vars

\* C3: edit is owner-only: no update of name/target/balance sent by onSaveEdit
\* is in flight for a bucket of which the sender is a member but not the owner.
C3_EditOwnerOnly ==
  \A r \in InFlight :
    (r.h = "onSaveEdit" /\ bucketDocs[r.id].exists /\ r.uid \in bucketDocs[r.id].memberIds)
      => r.uid = bucketDocs[r.id].ownerId

\* C5: delete is owner-only: onConfirmDelete sends deleteDoc for the bucket of
\* the dialog, and nothing else, when that bucket's ownerId is the caller's
\* uid; for any other caller it sends nothing and leaves submitting released.
C5_DeleteOwnerOnly ==
  [][\A c \in Clients :
       onConfirmDelete(c) =>
         LET editing == bucketsScreen[c].editing IN
           IF editing.ownerId = user[c]
           THEN /\ Issued = {[NoReq EXCEPT !.c = c, !.h = "onConfirmDelete",
                                           !.uid = user[c], !.id = editing.id]}
                /\ BagCardinality(pending') = BagCardinality(pending) + 1
           ELSE /\ pending' = pending
                /\ bucketsScreen'[c].submitting = FALSE]_vars

\* A member who is not the owner has confirmed the delete dialog: the handler
\* warned, sent nothing and released submitting.
C5_NonOwnerRefused ==
  \E c \in Clients :
    /\ bucketsScreen[c].editing.id # 0
    /\ bucketsScreen[c].editing.ownerId # user[c]
    /\ console[c] = "Only the owner can delete this bucket."
    /\ ~bucketsScreen[c].submitting
    /\ \A r \in InFlight : r.h # "onConfirmDelete"
    /\ bucketDocs[bucketsScreen[c].editing.id].exists

\* ---- membership of a bucket created by u1
\* The bucket as onAddBucket stores it: ownerId = creator, memberIds = [creator].
CreatedBucketDoc ==
  [exists |-> TRUE, deleted |-> FALSE, name |-> <<"R", "e", "n", "t">>,
   target |-> Fin(1000), balance |-> Zero, color |-> COLORS[1],
   ownerId |-> "u1", memberIds |-> {"u1"}]

InitCreated ==
  InitWith([i \in BucketIds |-> IF i = 1 THEN CreatedBucketDoc ELSE NoDoc],
           [i \in TripIds |-> NoTripDoc])

\* What is typed into the invite input: the e-mail of u2 with a leading blank
\* and a capital, the e-mail of u1, an address nobody registered.  The input
\* starts empty, which is no address.
InviteInputs ==
  { <<" ", "B", "@", "x", ".", "i", "o">>,
    <<"a", "@", "x", ".", "i", "o">>,
    <<"z", "@", "x", ".", "i", "o">> }

\* ---- invitations to a bucket created by u1
NextInvite ==
  \/ \E c \in Clients : bucketsOnSnapshot(c)
  \/ \E c \in Clients : \E b \in elems(bucketsScreen[c].buckets) : openMembers(c, b)
  \/ \E c \in Clients : closeMembers(c)
  \/ \E c \in Clients : \E v \in InviteInputs : setInviteEmail(c, v)
  \/ \E c \in Clients : inviteMemberByEmail(c)
  \/ \E r \in InFlight : \E ok \in BOOLEAN : inviteLookupSettled(r, ok)
  \/ \E r \in InFlight : \E ok \in BOOLEAN : inviteUpdateSettled(r, ok)

SpecInvite == InitCreated /\ [][NextInvite]_vars

\* ---- members coming and going: u2 is invited, removed, leaves
RosterInputs == { <<" ", "B", "@", "x", ".", "i", "o">> }

NextMembers ==
  \/ \E c \in Clients : bucketsOnSnapshot(c)
  \/ \E c \in Clients : \E b \in elems(bucketsScreen[c].buckets) : openMembers(c, b)
  \/ \E c \in Clients : closeMembers(c)
  \/ \E c \in Clients : \E v \in RosterInputs : setInviteEmail(c, v)
  \/ \E c \in Clients : inviteMemberByEmail(c)
  \/ \E r \in InFlight : \E ok \in BOOLEAN : inviteLookupSettled(r, ok)
  \/ \E r \in InFlight : \E ok \in BOOLEAN : inviteUpdateSettled(r, ok)
  \/ \E c \in Clients : \E uid \in bucketsScreen[c].membersBucket.memberIds :
       removeMember(c, uid)
  \/ \E r \in InFlight : \E ok \in BOOLEAN : removeMemberSettled(r, ok)
  \/ \E c \in Clients : leaveBucket(c)
  \/ \E r \in InFlight : \E ok \in BOOLEAN : leaveBucketSettled(r, ok)

SpecMembers == InitCreated /\ [][NextMembers]_vars

\* The step puts exactly the request r in flight and nothing else.
issuesOnly(r) ==
  /\ Issued = {r}
  /\ BagCardinality(pending') = BagCardinality(pending) + 1

\* C4: removeMember is gated before dispatch: called by somebody who is not
\* the owner of the bucket, or for the owner's uid, it puts nothing in flight
\* and sets an error; called by the owner for another uid it puts in flight
\* one arrayRemove of exactly that uid on that bucket.
C4_RemoveMemberGated ==
  [][\A c \in Clients : \A uid \in Users :
       removeMember(c, uid) =>
         LET id == bucketsScreen[c].membersBucket.id IN
           IF bucketDocs[id].ownerId # user[c] \/ uid = bucketDocs[id].ownerId
           THEN /\ pending' = pending
                /\ bucketsScreen'[c].membersError # Null
           ELSE issuesOnly([NoReq EXCEPT !.c = c, !.h = "removeMember", !.uid = user[c],
                                         !.id = id, !.member = uid])]_vars

\* A member who is not the owner called removeMember on the owner's bucket.
C4_NonOwnerRefused ==
  \E c \in Clients :
    /\ bucketsScreen[c].membersBucket.id # 0
    /\ bucketDocs[bucketsScreen[c].membersBucket.id].ownerId # user[c]
    /\ bucketsScreen[c].membersError = "Only the bucket owner can remove members."
    /\ \A r \in InFlight : r.h # "removeMember"

\* C6: the owner is a member in every reachable state: every stored bucket
\* has its ownerId in its memberIds, whatever invites, removals and leaves
\* were issued from whatever stale copies.
C6_OwnerIsMember ==
  \A i \in BucketIds : bucketDocs[i].exists => bucketDocs[i].ownerId \in bucketDocs[i].memberIds

\* A member was invited and removed again while a client still shows the
\* bucket with that member in it.
C6_RemovedWhileShown ==
  \E c \in Clients : \E b \in elems(bucketsScreen[c].buckets) :
    /\ bucketDocs[b.id].exists
    /\ "u2" \in b.memberIds
    /\ bucketDocs[b.id].memberIds = {bucketDocs[b.id].ownerId}

\* C7: an invite of an e-mail that resolves to a uid the store already held in
\* memberIds when inviteMemberByEmail was called never gets as far as the
\* memberIds update.
C7_NoUpdateForMember ==
  \A r \in InFlight : r.h = "inviteUpdate" => r.member \notin r.stored

\* The outcome of the lookup as the handler sees it.
unresolved(r, ok) ==
  \/ ~ok
  \/ lookupUserByEmail(TRUE, r.email).code # "ok"
  \/ lookupUserByEmail(TRUE, r.email).uid = ""

\* C8: an invite adds a member only on a valid owner invite: every memberIds
\* update put in flight comes from the owner of the bucket and names a
\* non-empty uid other than the caller; when the caller is not the owner, when
\* the lookup rejects or returns no uid, or when it returns the caller, no
\* update is put in flight and an error is set.
C8_InviteOnlyValidOwner ==
  [][/\ \A q \in Issued :
          q.h = "inviteUpdate"
            => q.uid = bucketDocs[q.id].ownerId /\ q.member # "" /\ q.member # q.uid
     /\ \A c \in Clients :
          (/\ bucketsScreen[c].membersBucket.id # 0
           /\ bucketDocs[bucketsScreen[c].membersBucket.id].ownerId # user[c]
           /\ inviteMemberByEmail(c))
            => pending' = pending /\ bucketsScreen'[c].membersError # Null
     /\ \A r \in InFlight : \A ok \in BOOLEAN :
          (inviteLookupSettled(r, ok)
             /\ (unresolved(r, ok) \/ lookupUserByEmail(TRUE, r.email).uid = r.uid))
            => /\ Issued = {}
               /\ bucketsScreen'[r.c].membersError # Null]_vars

\* A member who is not the owner called inviteMemberByEmail with the valid
\* e-mail of somebody else.
C8_NonOwnerRefused ==
  \E c \in Clients :
    /\ bucketsScreen[c].membersBucket.id # 0
    /\ bucketDocs[bucketsScreen[c].membersBucket.id].ownerId # user[c]
    /\ bucketsScreen[c].membersError = "Only the bucket owner can add members."
    /\ \A r \in InFlight : r.c # c

\* C9: leave removes only the caller and never the owner: called by the owner,
\* leaveBucket puts nothing in flight and sets an error; called by another
\* member it puts in flight one arrayRemove of the caller's uid, and when the
\* store applies it nobody else's membership changes.
C9_LeaveOnlySelf ==
  [][/\ \A c \in Clients :
          leaveBucket(c) =>
            LET id == bucketsScreen[c].membersBucket.id IN
              IF bucketDocs[id].ownerId = user[c]
              THEN /\ pending' = pending
                   /\ bucketsScreen'[c].membersError # Null
              ELSE issuesOnly([NoReq EXCEPT !.c = c, !.h = "leaveBucket", !.uid = user[c],
                                            !.id = id, !.member = user[c]])
     /\ \A r \in InFlight : \A ok \in BOOLEAN :
          leaveBucketSettled(r, ok) =>
            \A i \in BucketIds :
              /\ bucketDocs'[i].exists => bucketDocs'[i].ownerId \in bucketDocs'[i].memberIds
              /\ bucketDocs'[i].memberIds \ {r.uid} = bucketDocs[i].memberIds \ {r.uid}]_vars

\* The owner called leaveBucket and was refused, after a member had left.
C9_OwnerRefused ==
  \E c \in Clients :
    /\ bucketsScreen[c].membersBucket.id # 0
    /\ bucketDocs[bucketsScreen[c].membersBucket.id].ownerId = user[c]
    /\ bucketsScreen[c].membersError = "Owners can't leave. Transfer ownership later."
    /\ "u2" \in bucketsScreen[c].membersBucket.memberIds
    /\ "u2" \notin bucketDocs[bucketsScreen[c].membersBucket.id].memberIds
    /\ \A r \in InFlight : r.h # "leaveBucket"

\* ---- creating buckets from the create dialog, next to a bucket u1 has
NameInputs == { <<" ", " ">>, <<" ", "R", "e", "n", "t">> }
TargetInputs ==
  { <<"1", "0", "0">>, <<"a", "b", "c">>, <<"0">>, <<"-", "5">>, InfinityStr }
BalanceInputs == { <<"2", "0">>, <<"-", "1">> }

NextCreateBucket ==
  \/ \E c \in Clients : bucketsOnSnapshot(c)
  \/ \E c \in Clients : \E v \in NameInputs : setName(c, v)
  \/ \E c \in Clients : \E v \in TargetInputs : setTarget(c, v)
  \/ \E c \in Clients : \E v \in BalanceInputs : setBalance(c, v)
  \/ \E c \in Clients : onAddBucket(c)
  \/ \E r \in InFlight : \E ok \in BOOLEAN : onAddBucketSettled(r, ok)

SpecCreateBucket == InitCreated /\ [][NextCreateBucket]_vars

TitleInputs == { <<" ">>, <<"R", "i", "o", " ">> }
TripTargetInputs == { <<"1", "0", "0">>, <<"a", "b", "c">>, <<"-", "5">> }

NextCreateTrip ==
  \/ \E c \in Clients : tripsOnSnapshot(c)
  \/ \E c \in Clients : \E v \in TitleInputs : setTitle(c, v)
  \/ \E c \in Clients : \E v \in TripTargetInputs : tripsSetTarget(c, v)
  \/ \E c \in Clients : onCreateTrip(c)
  \/ \E r \in InFlight : \E ok \in BOOLEAN : onCreateTripSettled(r, ok)

SpecCreateTrip == Init /\ [][NextCreateTrip]_vars

\* ---- creating trips from CreateTripScreen
NextCreateTripScreen ==
  \/ \E c \in Clients : tripDetailOnSnapshot(c)
  \/ \E c \in Clients : \E v \in TitleInputs : createTripSetTitle(c, v)
  \/ \E c \in Clients : \E v \in TripTargetInputs : createTripSetTarget(c, v)
  \/ \E c \in Clients : onSave(c)
  \/ \E r \in InFlight : \E ok \in BOOLEAN : onSaveSettled(r, ok)

SpecCreateTripScreen == Init /\ [][NextCreateTripScreen]_vars

\* The ids of a list of buckets or trips.
idsOf(list) == {list[i].id : i \in 1..Len(list)}

\* The element of the list is r's document, just created: owned by the caller,
\* with the caller as only member, named and targeted as typed.
roundTrip(r, x, name) ==
  /\ x.ownerId = r.uid
  /\ x.memberIds = {r.uid}
  /\ name = trim(r.typed[1])
  /\ x.target = Number(r.typed[2])

\* C11: create round-trip: when the store has applied a create of principal
\* p, the snapshot of p's query holds a new document whose ownerId is p, whose
\* memberIds is exactly {p}, and whose name and target are the values typed
\* into the dialog, the name trimmed; for buckets (onAddBucket) and for trips
\* (onCreateTrip, CreateTripScreen.onSave).
C11_CreateRoundTrip ==
  [][\A r \in InFlight :
       /\ onAddBucketSettled(r, TRUE)
            => \E b \in elems(bucketsQuery(r.uid, MaxDocs)') :
                 /\ b.id \notin idsOf(bucketsQuery(r.uid, MaxDocs))
                 /\ roundTrip(r, b, b.name)
       /\ (onCreateTripSettled(r, TRUE) \/ onSaveSettled(r, TRUE))
            => \E t \in elems(tripsQuery(r.uid, MaxDocs)') :
                 /\ t.id \notin idsOf(tripsQuery(r.uid, MaxDocs))
                 /\ roundTrip(r, t, t.title)]_vars

\* The snapshot delivered to a client after its create shows the bucket, on
\* top of an older one: typed " Rent" and "100", shown as "Rent" and 100.
C11_CreatedBucketShown ==
  \E c \in Clients :
    /\ Len(bucketsScreen[c].buckets) = 2
    /\ LET b == bucketsScreen[c].buckets[1] IN
         /\ b.ownerId = user[c]
         /\ b.memberIds = {user[c]}
         /\ b.name = <<"R", "e", "n", "t">>
         /\ b.target = Fin(100)

\* ---- snapshots of lists that grow, shrink and change
\* A second bucket and a second trip, created by u2 and not shared.
SecondBucketDoc ==
  [exists |-> TRUE, deleted |-> FALSE, name |-> <<"C", "a", "r">>,
   target |-> Fin(500), balance |-> Zero, color |-> COLORS[1],
   ownerId |-> "u2", memberIds |-> {"u2"}]

SecondTripDoc ==
  [exists |-> TRUE, deleted |-> FALSE, title |-> <<"O", "s", "l", "o">>,
   target |-> Fin(500), saved |-> Zero, ownerId |-> "u2", memberIds |-> {"u2"}]

InitTwo ==
  InitWith([i \in BucketIds |-> CASE i = 1 -> SharedBucketDoc
                                   [] i = 2 -> SecondBucketDoc
                                   [] OTHER -> NoDoc],
           [i \in TripIds |-> CASE i = 1 -> SharedTripDoc
                                 [] i = 2 -> SecondTripDoc
                                 [] OTHER -> NoTripDoc])

NextSnapshots ==
  \/ \E c \in Clients : bucketsOnSnapshot(c)
  \/ \E c \in Clients : tripsOnSnapshot(c)
  \/ \E c \in Clients : \E b \in elems(bucketsScreen[c].buckets) : startDelete(c, b)
  \/ \E c \in Clients : onConfirmDelete(c)
  \/ \E r \in InFlight : \E ok \in BOOLEAN : onConfirmDeleteSettled(r, ok)
  \/ \E c \in Clients : \E t \in elems(tripsScreen[c].trips) : \E a \in QuickContributeAmounts :
       quickContribute(c, t, a)
  \/ \E r \in InFlight : \E ok \in BOOLEAN : quickContributeSettled(r, ok)

SpecSnapshots == InitTwo /\ [][NextSnapshots]_vars

\* The list holds the documents of docs that uid is a member of, each once,
\* newest first, and nothing else.
exactly(list, docs, uid) ==
  /\ idsOf(list) = {i \in DOMAIN docs : docs[i].exists /\ uid \in docs[i].memberIds}
  /\ \A k \in 1..(Len(list) - 1) : list[k].id > list[k + 1].id
  /\ \A k \in 1..Len(list) :
       /\ list[k].ownerId = docs[list[k].id].ownerId
       /\ list[k].memberIds = docs[list[k].id].memberIds
       /\ list[k].target = docs[list[k].id].target

\* C12: snapshots fully replace local state: after the snapshot callback of
\* the buckets list or of the trips list, the local list is exactly the
\* snapshot (the stored documents the principal is a member of, newest first,
\* with their stored names and amounts) and holds nothing of what it held
\* before.
C12_SnapshotReplaces ==
  [][\A c \in Clients :
       /\ bucketsOnSnapshot(c)
            => LET list == bucketsScreen'[c].buckets IN
                 /\ exactly(list, bucketDocs, user[c])
                 /\ \A k \in 1..Len(list) :
                      /\ list[k].name = bucketDocs[list[k].id].name
                      /\ list[k].balance = bucketDocs[list[k].id].balance
       /\ tripsOnSnapshot(c)
            => LET list == tripsScreen'[c].trips IN
                 /\ exactly(list, tripDocs, user[c])
                 /\ \A k \in 1..Len(list) :
                      /\ list[k].title = tripDocs[list[k].id].title
                      /\ list[k].saved = tripDocs[list[k].id].saved]_vars

\* A client that had the shared bucket in its list (it opened the delete
\* dialog on it) got a snapshot after the owner deleted it: only the other
\* bucket is left.
C12_ShorterSnapshotShown ==
  \E c \in Clients :
    /\ bucketsScreen[c].editing.id = 1
    /\ bucketDocs[1].deleted
    /\ idsOf(bucketsScreen[c].buckets) = {2}

\* ---- listeners torn down by logout and by leaving the trip detail screen
NextTeardown ==
  \/ \E c \in Clients : bucketsOnSnapshot(c)
  \/ \E c \in Clients : bucketsOnSnapshotError(c)
  \/ \E c \in Clients : tripsOnSnapshot(c)
  \/ \E c \in Clients : tripDetailOnSnapshot(c)
  \/ \E c \in Clients : tripDetailOnSnapshotError(c)
  \/ \E c \in Clients : homeOnSnapshot(c)
  \/ \E c \in Clients : \E t \in elems(tripsScreen[c].trips) : onPressTrip(c, t)
  \/ \E c \in Clients : goBack(c)
  \/ \E c \in Clients : logout(c)
  \/ \E c \in Clients : login(c, c)
  \/ \E c \in Clients : \E b \in elems(bucketsScreen[c].buckets) : quickAdd(c, b, 50)
  \/ \E r \in InFlight : \E ok \in BOOLEAN : quickAddSettled(r, ok)

SpecTeardown == InitShared /\ [][NextTeardown]_vars

\* What the callbacks of a listener write: the state its screen shows.
shown(c) ==
  [buckets |-> <<bucketsScreen[c].buckets, bucketsScreen[c].readError>>,
   trips |-> <<tripsScreen[c].trips, tripsScreen[c].fetching, tripsScreen[c].error>>,
   detail |-> <<tripDetail[c].trip, tripDetail[c].fetching, tripDetail[c].error>>,
   home |-> <<homeScreen[c].buckets>>]

InitFilledWith(n) ==
  /\ user = [c \in Clients |-> c]
  /\ bucketDocs = [i \in BucketIds |-> IF i = 1 THEN SharedBucketDoc ELSE NoDoc]
  /\ tripDocs = [i \in TripIds |-> IF i = 1 THEN SharedTripDoc ELSE NoTripDoc]
  /\ pending = EmptyBag
  /\ listeners = [c \in Clients |-> ListenersInit(c)]
  /\ bucketsScreen = [c \in Clients |->
       [BucketsScreenInit EXCEPT !.name = <<" ", "R", "e", "n", "t">>,
                                 !.target = <<"1", "0", "0">>]]
  /\ tripsScreen = [c \in Clients |->
       [TripsScreenInit EXCEPT !.title = <<"R", "i", "o", " ">>,
                               !.target = <<"1", "0", "0">>]]
  /\ tripDetail = [c \in Clients |-> TripDetailInit(1)]
  /\ createTrip = [c \in Clients |-> CreateTripInit]
  /\ homeScreen = [c \in Clients |-> HomeScreenInit]
  /\ console = [c \in Clients |-> ""]
  /\ issued = [c \in Clients |-> n]
  /\ contributed = [buckets |-> [i \in BucketIds |-> 0], trips |-> [i \in TripIds |-> 0]]
  /\ authCtx = [c \in Clients |-> AuthCtxOf(c)]

InitFilled == InitFilledWith(0)

\* The client whose session this is: u2, a member of the shared bucket and trip
\* and the owner of what it creates.
Actors == {UserOrder[2]}
\* What the client types into the invite input: the e-mail of u1.
ActorInviteInputs == { <<"a", "@", "x", ".", "i", "o">> }

\* One handler at a time: a handler is called when no call is in flight.
idle == pending = EmptyBag

NextHandlers ==
  \/ \E c \in Actors : bucketsOnSnapshot(c)
  \/ \E c \in Actors : tripsOnSnapshot(c)
  \/ \E c \in Actors : idle /\ onAddBucket(c)
  \/ \E r \in InFlight : \E ok \in BOOLEAN : onAddBucketSettled(r, ok)
  \/ \E c \in Actors : \E b \in elems(bucketsScreen[c].buckets) : startEdit(c, b)
  \/ \E c \in Actors : idle /\ onSaveEdit(c)
  \/ \E r \in InFlight : \E ok \in BOOLEAN : onSaveEditSettled(r, ok)
  \/ \E c \in Actors : idle /\ onConfirmDelete(c)
  \/ \E r \in InFlight : \E ok \in BOOLEAN : onConfirmDeleteSettled(r, ok)
  \/ \E c \in Actors : \E b \in elems(bucketsScreen[c].buckets) : idle /\ quickAdd(c, b, 50)
  \/ \E r \in InFlight : \E ok \in BOOLEAN : quickAddSettled(r, ok)
  \/ \E c \in Actors : \E t \in elems(tripsScreen[c].trips) : idle /\ quickContribute(c, t, 50)
  \/ \E r \in InFlight : \E ok \in BOOLEAN : quickContributeSettled(r, ok)
  \/ \E c \in Actors : \E b \in elems(bucketsScreen[c].buckets) : openMembers(c, b)
  \/ \E c \in Actors : \E v \in ActorInviteInputs : setInviteEmail(c, v)
  \/ \E c \in Actors : idle /\ inviteMemberByEmail(c)
  \/ \E r \in InFlight : \E ok \in BOOLEAN : inviteLookupSettled(r, ok)
  \/ \E r \in InFlight : \E ok \in BOOLEAN : inviteUpdateSettled(r, ok)
  \/ \E c \in Actors : \E uid \in bucketsScreen[c].membersBucket.memberIds :
       idle /\ removeMember(c, uid)
  \/ \E r \in InFlight : \E ok \in BOOLEAN : removeMemberSettled(r, ok)
  \/ \E c \in Actors : idle /\ leaveBucket(c)
  \/ \E r \in InFlight : \E ok \in BOOLEAN : leaveBucketSettled(r, ok)

SpecHandlers == InitFilled /\ [][NextHandlers]_vars

\* C14: no optimistic local application: the local collections change only in
\* a snapshot callback: a step that changes a client's buckets list is the
\* buckets snapshot callback of that client, and likewise for the trips list,
\* the home list and the trip of the detail screen (which a navigation to a
\* trip also resets); so no call of a mutation handler (create, edit, delete,
\* contribute, invite, remove, leave) and no settling of its remote call,
\* success or failure, changes them.
C14_NoOptimisticApplication ==
  [][\A c \in Clients :
       /\ bucketsScreen'[c].buckets # bucketsScreen[c].buckets => bucketsOnSnapshot(c)
       /\ tripsScreen'[c].trips # tripsScreen[c].trips => tripsOnSnapshot(c)
       /\ homeScreen'[c].buckets # homeScreen[c].buckets => homeOnSnapshot(c)
       /\ tripDetail'[c].trip # tripDetail[c].trip
            => tripDetailOnSnapshot(c) \/ tripDetail'[c] = TripDetailInit(tripDetail'[c].tripId)]_vars

\* The store has applied a client's delete, its dialog is closed, and its list
\* still holds the bucket; and a bucket it left is still in its list too.
C14_DeletedStillListed ==
  \E c \in Clients :
    /\ bucketsScreen[c].editing = NoBucket
    /\ \E b \in elems(bucketsScreen[c].buckets) : bucketDocs[b.id].deleted
    /\ \E b \in elems(bucketsScreen[c].buckets) :
         bucketDocs[b.id].exists /\ user[c] \notin bucketDocs[b.id].memberIds

\* ---- what the screens of one client hold while memberships and its
\* principal change
NextVisibility ==
  \/ \E c \in Clients : bucketsOnSnapshot(c)
  \/ \E c \in Actors : bucketsOnSnapshotError(c)
  \/ \E c \in Actors : tripsOnSnapshot(c)
  \/ \E c \in Actors : tripDetailOnSnapshot(c)
  \/ \E c \in Actors : tripDetailOnSnapshotError(c)
  \/ \E c \in Actors : \E i \in TripIds : openTripRoute(c, i)
  \/ \E c \in Clients : \E b \in elems(bucketsScreen[c].buckets) : openMembers(c, b)
  \/ \E c \in Clients : \E uid \in bucketsScreen[c].membersBucket.memberIds :
       removeMember(c, uid)
  \/ \E r \in InFlight : \E ok \in BOOLEAN : removeMemberSettled(r, ok)
  \/ \E c \in Clients : leaveBucket(c)
  \/ \E r \in InFlight : \E ok \in BOOLEAN : leaveBucketSettled(r, ok)
  \/ \E c \in Actors : logout(c)
  \/ \E c \in Actors : \E u \in Clients : login(c, u)

SpecVisibility == InitTwo /\ [][NextVisibility]_vars

Q(n, d) == IF d > 0 THEN [n |-> n, d |-> d] ELSE [n |-> 0 - n, d |-> 0 - d]
Q0 == Q(0, 1)
Q1 == Q(1, 1)
qle(x, y) == x.n * y.d <= y.n * x.d
qeq(x, y) == x.n * y.d = y.n * x.d
\* Math.min, Math.max
MathMin(x, y) == IF qle(x, y) THEN x ELSE y
MathMax(x, y) == IF qle(x, y) THEN y ELSE x

\* const clamp = (n, min, max) => Math.max(min, Math.min(n, max))
clamp(n, lo, hi) == MathMax(lo, MathMin(n, hi))

\* BucketsScreen.renderItem: pct of a bucket card
renderItemPct(item) ==
  IF item.target.v > 0 THEN clamp(Q(item.balance.v, item.target.v), Q0, Q1) ELSE Q0

\* TripsScreen.renderTrip: pct and remaining of a trip card
renderTripPct(item) ==
  IF item.target.v > 0 THEN clamp(Q(item.saved.v, item.target.v), Q0, Q1) ELSE Q0

renderTripRemaining(item) ==
  MathMax(Q0, Q(orZero(item.target).v - orZero(item.saved).v, 1))

\* TripDetailScreen: pct and remaining of the trip; trip is NoTrip for null
detailPct(trip) ==
  IF trip = NoTrip \/ ~truthy(trip.target) THEN Q0
  ELSE clamp(Q(orZero(trip.saved).v, trip.target.v), Q0, Q1)

detailRemaining(trip) ==
  IF trip = NoTrip THEN Q0
  ELSE MathMax(Q0, Q(orZero(trip.target).v - orZero(trip.saved).v, 1))

\* HomeScreen: pct and left of a row of the top buckets
topRowPct(b) ==
  IF b.target.v > 0 THEN MathMin(Q(b.balance.v, b.target.v), Q1) ELSE Q0

\* The row's left without the floor at 0
topRowLeftNoMax(b) == Q(b.target.v - b.balance.v, 1)

topRowLeft(b) == MathMax(Q(b.target.v - b.balance.v, 1), Q0)

\* buckets.reduce((sum, b) => sum + (Number(b.x) || 0), 0)
RECURSIVE reduceSum(_)
reduceSum(nums) ==
  IF nums = <<>> THEN 0 ELSE orZero(Head(nums)).v + reduceSum(Tail(nums))

\* The compare function of the topBuckets sort is negative: a goes before b.
sortsBefore(a, b) ==
  LET ap == IF a.target.v > 0 THEN Q(a.balance.v, a.target.v) ELSE Q0
      bp == IF b.target.v > 0 THEN Q(b.balance.v, b.target.v) ELSE Q0
  IN  IF ~qeq(bp, ap) THEN ~qle(ap, bp)
      ELSE orZero(b.balance).v - orZero(a.balance).v < 0

\* Array.prototype.sort is stable: x goes in front of the first element it
\* sorts before.
RECURSIVE insertSorted(_, _)
insertSorted(x, s) ==
  IF s = <<>> THEN <<x>>
  ELSE IF sortsBefore(x, Head(s)) THEN <<x>> \o s
  ELSE <<Head(s)>> \o insertSorted(x, Tail(s))

RECURSIVE sort(_)
sort(list) ==
  IF list = <<>> THEN <<>>
  ELSE insertSorted(list[Len(list)], sort(SubSeq(list, 1, Len(list) - 1)))

\* .slice(0, n)
slice(list, n) == SubSeq(list, 1, IF Len(list) < n THEN Len(list) ELSE n)

\* HomeScreen totals
totals(list) ==
  LET totalSaved == reduceSum([i \in 1..Len(list) |-> list[i].balance])
      totalGoals == reduceSum([i \in 1..Len(list) |-> list[i].target])
  IN  [totalSaved |-> totalSaved,
       totalGoals |-> totalGoals,
       remaining |-> MathMax(Q(totalGoals - totalSaved, 1), Q0),
       progress |-> IF totalGoals > 0 THEN MathMin(Q(totalSaved, totalGoals), Q1) ELSE Q0,
       activeGoals |-> Cardinality({i \in 1..Len(list) : orZero(list[i].target).v > 0}),
       topBuckets |-> slice(sort(list), 3)]

\* ---- documents with any finite amounts, loaded by the four listeners
\* Targets and amounts saved of the stored documents: nothing, negative,
\* under, at and over the target.
DocTargets == {0 - 5, 0, 100, 1000}
DocBalances == {0 - 50, 250, 1500}

AnyBucketDoc(t, b) ==
  [SharedBucketDoc EXCEPT !.target = Fin(t), !.balance = Fin(b)]

AnyTripDoc(t, b) ==
  [SharedTripDoc EXCEPT !.target = Fin(t), !.saved = Fin(b)]

\* Some documents, each shared by everybody; trip i has the amounts of bucket i.
InitDerived ==
  \E E \in [BucketIds -> BOOLEAN] :
    \E T \in [BucketIds -> DocTargets] : \E S \in [BucketIds -> DocBalances] :
      /\ \A i \in BucketIds : ~E[i] => T[i] = 0 /\ S[i] = 250
      /\ InitWith([i \in BucketIds |-> IF E[i] THEN AnyBucketDoc(T[i], S[i]) ELSE NoDoc],
                  [i \in TripIds |-> IF E[i] THEN AnyTripDoc(T[i], S[i]) ELSE NoTripDoc])

NextDerived ==
  \/ \E c \in Clients : bucketsOnSnapshot(c)
  \/ \E c \in Clients : tripsOnSnapshot(c)
  \/ \E c \in Clients : tripDetailOnSnapshot(c)
  \/ \E c \in Clients : homeOnSnapshot(c)

SpecDerived == InitDerived /\ [][NextDerived]_vars

\* p is within [0, 1], and 0 for a target that is not above 0.
percentFundedOk(p, target) ==
  /\ qle(Q0, p) /\ qle(p, Q1)
  /\ target.v <= 0 => qeq(p, Q0)

\* C16: percentFunded is always within [0, 1] and is 0 whenever target <= 0,
\* whatever the balance (negative, above the target), in every place a
\* per-resource progress is computed: bucket card, trip card, trip detail and
\* the row of a top bucket on the home screen.
C16_PercentFundedInUnit ==
  \A c \in Clients :
    /\ \A b \in elems(bucketsScreen[c].buckets) : percentFundedOk(renderItemPct(b), b.target)
    /\ \A t \in elems(tripsScreen[c].trips) : percentFundedOk(renderTripPct(t), t.target)
    /\ tripDetail[c].trip # NoTrip
         => percentFundedOk(detailPct(tripDetail[c].trip), tripDetail[c].trip.target)
    /\ \A b \in elems(totals(homeScreen[c].buckets).topBuckets) :
         percentFundedOk(topRowPct(b), b.target)

\* The sum of a sequence of integers.
RECURSIVE sumOf(_)
sumOf(ns) == IF ns = <<>> THEN 0 ELSE sumOf(SubSeq(ns, 1, Len(ns) - 1)) + ns[Len(ns)]

\* C17: home roll-up totals: totalSaved is the sum of the balances of the
\* home screen's buckets, totalGoals the sum of their targets, remaining is
\* max(0, totalGoals - totalSaved), activeGoals the number of buckets with a
\* target above 0, and the overall progress is totalSaved / totalGoals clamped
\* to [0, 1] when totalGoals > 0 and 0 otherwise.
C17_HomeRollup ==
  \A c \in Clients :
    LET list == homeScreen[c].buckets
        saved == sumOf([i \in 1..Len(list) |-> list[i].balance.v])
        goals == sumOf([i \in 1..Len(list) |-> list[i].target.v])
        t == totals(list)
    IN  /\ t.totalSaved = saved
        /\ t.totalGoals = goals
        /\ qeq(t.remaining, Q(IF goals - saved > 0 THEN goals - saved ELSE 0, 1))
        /\ t.activeGoals = Cardinality({i \in 1..Len(list) : list[i].target.v > 0})
        /\ IF goals > 0
           THEN /\ qle(Q0, t.progress) /\ qle(t.progress, Q1)
                /\ (0 <= saved /\ saved <= goals) => qeq(t.progress, Q(saved, goals))
                /\ saved < 0 => qeq(t.progress, Q0)
                /\ saved > goals => qeq(t.progress, Q1)
           ELSE qeq(t.progress, Q0)

\* r is max(0, target - balance).
remainingOk(r, target, balance) ==
  /\ qle(Q0, r)
  /\ balance.v >= target.v => qeq(r, Q0)
  /\ balance.v < target.v => qeq(r, Q(target.v - balance.v, 1))

\* C18: remaining(resource) is max(0, target - balance): never negative, 0
\* when the balance has reached the target, target - balance otherwise, in
\* every place it is computed: the row of a top bucket on the home screen,
\* the trip card and the trip detail screen.
C18_RemainingFloored ==
  \A c \in Clients :
    /\ \A b \in elems(totals(homeScreen[c].buckets).topBuckets) :
         remainingOk(topRowLeft(b), b.target, b.balance)
    /\ \A t \in elems(tripsScreen[c].trips) :
         remainingOk(renderTripRemaining(t), t.target, t.saved)
    /\ tripDetail[c].trip # NoTrip
         => remainingOk(detailRemaining(tripDetail[c].trip),
                        tripDetail[c].trip.target, tripDetail[c].trip.saved)

\* A home screen shows a bucket with target 1000 and balance 250, 750 left,
\* next to an overfunded one with nothing left, and the same client's trip
\* detail shows an overfunded trip with nothing remaining.
C18_Shows750Left ==
  \E c \in Clients :
    LET top == totals(homeScreen[c].buckets).topBuckets IN
      /\ \E b \in elems(top) :
           b.target = Fin(1000) /\ b.balance = Fin(250) /\ topRowLeft(b) = Q(750, 1)
      /\ \E b \in elems(top) : b.balance.v > b.target.v /\ topRowLeft(b) = Q0
      /\ tripDetail[c].trip # NoTrip
      /\ tripDetail[c].trip.saved.v > tripDetail[c].trip.target.v
      /\ detailRemaining(tripDetail[c].trip) = Q0

\* x is funded further than y, or as far with the larger balance.
percentFunded(b) ==
  IF b.target.v > 0 THEN MathMax(Q0, MathMin(Q(b.balance.v, b.target.v), Q1)) ELSE Q0

ranksAbove(x, y) ==
  \/ ~qle(percentFunded(x), percentFunded(y))
  \/ qeq(percentFunded(x), percentFunded(y)) /\ x.balance.v > y.balance.v

\* C19: top buckets ordering: the top list of the home screen is the first
\* three buckets of the collection sorted descending by percentFunded (the
\* ratio clamped to [0, 1], 0 when target <= 0), ties broken by descending
\* balance: no bucket of the list ranks above one that precedes it, and no
\* bucket left out ranks above one of the list.
C19_TopBucketsOrdered ==
  \A c \in Clients :
    LET list == homeScreen[c].buckets
        top == totals(list).topBuckets
    IN  /\ Len(top) = (IF Len(list) < 3 THEN Len(list) ELSE 3)
        /\ \A i, j \in 1..Len(top) : i < j => ~ranksAbove(top[j], top[i])
        /\ \A k \in 1..Len(list) :
             (\A i \in 1..Len(top) : top[i] # list[k])
               => \A i \in 1..Len(top) : ~ranksAbove(list[k], top[i])

\* ---- the create and contribute surfaces of one client: a button that is
\* disabled cannot be pressed
\* BucketsScreen canCreate: the create dialog's Save is disabled without it
canCreate(c) ==
  /\ Len(trim(bucketsScreen[c].name)) > 0
  /\ gt0(Number(bucketsScreen[c].target))
  /\ ~bucketsScreen[c].submitting

\* TripsScreen canCreate
tripsCanCreate(c) ==
  /\ user[c] # Null
  /\ trim(tripsScreen[c].title) # <<>>
  /\ LET t == Number(tripsScreen[c].target) IN isFinite(t) /\ gt0(t)
  /\ ~tripsScreen[c].creating

\* Save of the bucket create dialog: disabled={!canCreate}
pressSave(c) == canCreate(c) /\ onAddBucket(c)

\* Save of the trip create dialog: disabled={!canCreate}
tripsPressSave(c) == tripsCanCreate(c) /\ onCreateTrip(c)

\* Add of the contribute dialog: disabled={contributeSubmitting}
pressAdd(c) == ~tripsScreen[c].contributeSubmitting /\ onConfirmContribute(c)

\* The contribute buttons of the trip detail screen: disabled={submitting}
pressContribute(c, amt) == ~tripDetail[c].submitting /\ contribute(c, amt)

\* What is typed into the amount input of the contribute dialog
ContributeInputs == { <<"5", "0">> }

NextSurfaces ==
  \/ \E c \in Actors : bucketsOnSnapshot(c)
  \/ \E c \in Actors : tripsOnSnapshot(c)
  \/ \E c \in Actors : tripDetailOnSnapshot(c)
  \/ \E c \in Actors : pressSave(c)
  \/ \E r \in InFlight : \E ok \in BOOLEAN : onAddBucketSettled(r, ok)
  \/ \E c \in Actors : \E b \in elems(bucketsScreen[c].buckets) : quickAdd(c, b, 50)
  \/ \E r \in InFlight : \E ok \in BOOLEAN : quickAddSettled(r, ok)
  \/ \E c \in Actors : tripsPressSave(c)
  \/ \E r \in InFlight : \E ok \in BOOLEAN : onCreateTripSettled(r, ok)
  \/ \E c \in Actors : \E t \in elems(tripsScreen[c].trips) : quickContribute(c, t, 50)
  \/ \E r \in InFlight : \E ok \in BOOLEAN : quickContributeSettled(r, ok)
  \/ \E c \in Actors : \E t \in elems(tripsScreen[c].trips) : openContribute(c, t)
  \/ \E c \in Actors : \E v \in ContributeInputs : setContributeAmount(c, v)
  \/ \E c \in Actors : pressAdd(c)
  \/ \E r \in InFlight : \E ok \in BOOLEAN : onConfirmContributeSettled(r, ok)
  \/ \E c \in Actors : pressContribute(c, 50)
  \/ \E r \in InFlight : \E ok \in BOOLEAN : contributeSettled(r, ok)

\* A surface is pressed twice: the count of contributions starts low enough
\* for two contributions of a client within MaxContrib.
InitSurfaces == InitFilledWith(MaxContrib - 2)

SpecSurfaces == InitSurfaces /\ [][NextSurfaces]_vars

\* The calls of handler h of client c that are in flight, for document id.
outstanding(c, h, id) ==
  BagCardinality([r \in {q \in InFlight : q.c = c /\ q.h = h /\ q.id = id} |-> pending[r]])

\* C20: no duplicate submission: for each create or contribute surface of a
\* client at most one remote request of that action is outstanding at any
\* time: one addDoc of the bucket create dialog, one of the trip create
\* dialog, and for every bucket or trip one quick add, one quick contribute,
\* one contribution of the contribute dialog and one of the detail screen.
C20_NoDuplicateSubmission ==
  \A c \in Clients :
    /\ \A h \in {"onAddBucket", "onCreateTrip"} : outstanding(c, h, 0) <= 1
    /\ \A i \in BucketIds : outstanding(c, "quickAdd", i) <= 1
    /\ \A i \in TripIds :
         \A h \in {"quickContribute", "onConfirmContribute", "contribute"} :
           outstanding(c, h, i) <= 1

\* ---- mutations and the state of the screen's subscription
\* The listener of the screen whose handler h belongs to: BucketsScreen,
\* TripsScreen, TripDetailScreen.
listenerOf(h) ==
  IF h \in {"onCreateTrip", "quickContribute", "onConfirmContribute"} THEN "trips"
  ELSE IF h = "contribute" THEN "detail"
  ELSE "buckets"

NextLive ==
  \/ NextSurfaces
  \/ \E c \in Actors : bucketsOnSnapshotError(c)
  \/ \E c \in Actors : tripsOnSnapshotError(c)
  \/ \E c \in Actors : tripDetailOnSnapshotError(c)

SpecLive == InitSurfaces /\ [][NextLive]_vars

\* C21: mutations originate only from the Live state: a create, edit, delete,
\* contribute, invite, remove or leave request is sent to the store only
\* when the listener of the handler's screen has delivered a snapshot and has
\* not errored and is not unsubscribed.
C21_MutationsOnlyWhenLive ==
  [][\A r \in Issued :
       (r.c \in Clients /\ r.h # "onSave") => listeners[r.c][listenerOf(r.h)] = "live"]_vars

\* ---- AuthProvider: the onAuthStateChanged callback
\* Auth state changes delivered to one client
MaxAuthEvents == 3

\* A setUser after which the listener effects do not run again
setUserKeepsListeners(c, u) ==
  /\ user' = [user EXCEPT ![c] = u]
  /\ listeners' = IF user[c] = Null
                  THEN [listeners EXCEPT ![c] = [ListenersInit(u) EXCEPT !.detail = "off"]]
                  ELSE listeners
  /\ UNCHANGED <<bucketsScreen, tripsScreen, tripDetail>>

\* React rendering after setUser(u), u a principal, in a client whose user
\* was old: TabLayout shows the tabs; with no user before, the tab screens
\* mount and their effects open the listeners with u's uid; with another
\* user before, the screens stay and every listener effect (dependencies
\* user / user?.uid) runs its cleanup and subscribes again with u's uid.
setUser(c, u) ==
  LET old == user[c] IN
  /\ user' = [user EXCEPT ![c] = u]
  /\ IF old = u
     THEN UNCHANGED <<listeners, bucketsScreen, tripsScreen, tripDetail>>
     ELSE IF old = Null
     THEN /\ listeners' = [listeners EXCEPT ![c] = [ListenersInit(u) EXCEPT !.detail = "off"]]
          /\ UNCHANGED <<bucketsScreen, tripsScreen, tripDetail>>
     ELSE /\ listeners' = [listeners EXCEPT ![c] =
                             [ListenersInit(u) EXCEPT !.detail =
                                IF listeners[c].detail = "off" THEN "off" ELSE "subscribing"]]
          /\ bucketsScreen' = [bucketsScreen EXCEPT ![c].readError = Null]
          /\ tripsScreen' = [tripsScreen EXCEPT ![c].fetching = TRUE, ![c].error = Null]
          /\ tripDetail' = IF listeners[c].detail = "off" THEN tripDetail
                           ELSE [tripDetail EXCEPT ![c].fetching = TRUE, ![c].error = Null]

\* The auth SDK calls the callback with u (a principal or null).  With a
\* principal the callback awaits u.getIdToken(); with null it goes on to
\* setUser(null); setLoading(false): TabLayout redirects to the login screen,
\* the tab screens unmount and their cleanups unsubscribe.
onAuthStateChanged(c, u) ==
  /\ authCtx[c].events < MaxAuthEvents
  /\ u # authCtx[c].current \/ authCtx[c].events = 0
  /\ IF u # Null
     THEN /\ canSend
          /\ send([NoReq EXCEPT !.c = c, !.h = "getIdToken", !.uid = u])
          /\ authCtx' = [authCtx EXCEPT ![c].current = u, ![c].events = @ + 1]
          /\ UNCHANGED <<user, listeners, bucketsScreen, tripsScreen, tripDetail, createTrip,
                         homeScreen>>
     ELSE /\ authCtx' = [authCtx EXCEPT ![c].current = Null, ![c].token = Null,
                                        ![c].loading = FALSE, ![c].events = @ + 1]
          /\ user' = [user EXCEPT ![c] = Null]
          /\ listeners' = [listeners EXCEPT ![c] = ListenersOff]
          /\ bucketsScreen' = [bucketsScreen EXCEPT ![c] = BucketsScreenInit]
          /\ tripsScreen' = [tripsScreen EXCEPT ![c] = TripsScreenInit]
          /\ tripDetail' = [tripDetail EXCEPT ![c] = TripDetailInit(tripDetail[c].tripId)]
          /\ createTrip' = [createTrip EXCEPT ![c] = CreateTripInit]
          /\ homeScreen' = [homeScreen EXCEPT ![c] = HomeScreenInit]
          /\ pending' = orphaned(c)
  /\ UNCHANGED <<bucketDocs, tripDocs, console, issued, contributed>>

\* await u.getIdToken() has settled.  Resolved: setUser(u); setLoading(false)
\* and upsertPublicUser(u) is called.  Rejected: the catch block warns and
\* does setUser(u ?? null); setLoading(false).
getIdTokenSettled(r, ok) ==
  /\ r.h = "getIdToken"
  /\ setUser(r.c, r.uid)
  /\ authCtx' = [authCtx EXCEPT ![r.c].loading = FALSE,
                                ![r.c].token = IF ok THEN r.uid ELSE @]
  /\ IF ok
     THEN /\ settledThenSend(r, [r EXCEPT !.h = "upsertPublicUser"])
          /\ UNCHANGED console
     ELSE /\ settled(r)
          /\ console' = [console EXCEPT ![r.c] = "Auth init error:"]
  /\ UNCHANGED <<bucketDocs, tripDocs, createTrip, homeScreen, issued, contributed>>

\* await upsertPublicUser(u), the setDoc on publicUsers/<uid>, has settled; a
\* rejection is caught with a warning.
upsertPublicUserSettled(r, ok) ==
  /\ r.h = "upsertPublicUser"
  /\ settled(r)
  /\ console' = IF ok THEN console
                ELSE [console EXCEPT ![r.c] = "Failed to upsert public user profile:"]
  /\ UNCHANGED <<user, bucketDocs, tripDocs, listeners, bucketsScreen, tripsScreen,
                 tripDetail, createTrip, homeScreen, issued, contributed, authCtx>>

\* The app is started on the actor's device: AuthProvider has mounted
\* (user null, loading true) and no auth state has been delivered; the
\* other clients are signed in.
InitAuth ==
  /\ user = [c \in Clients |-> IF c \in Actors THEN Null ELSE c]
  /\ bucketDocs = [i \in BucketIds |-> IF i = 1 THEN SharedBucketDoc ELSE NoDoc]
  /\ tripDocs = [i \in TripIds |-> IF i = 1 THEN SharedTripDoc ELSE NoTripDoc]
  /\ pending = EmptyBag
  /\ listeners = [c \in Clients |-> IF c \in Actors THEN ListenersOff ELSE ListenersInit(c)]
  /\ bucketsScreen = [c \in Clients |-> BucketsScreenInit]
  /\ tripsScreen = [c \in Clients |-> TripsScreenInit]
  /\ tripDetail = [c \in Clients |-> TripDetailInit(1)]
  /\ createTrip = [c \in Clients |-> CreateTripInit]
  /\ homeScreen = [c \in Clients |-> HomeScreenInit]
  /\ console = [c \in Clients |-> ""]
  /\ issued = [c \in Clients |-> 0]
  /\ contributed = [buckets |-> [i \in BucketIds |-> 0], trips |-> [i \in TripIds |-> 0]]
  /\ authCtx = [c \in Clients |->
       IF c \in Actors THEN [current |-> Null, loading |-> TRUE, token |-> Null, events |-> 0]
       ELSE AuthCtxOf(c)]

NextAuth ==
  \/ \E c \in Actors : \E u \in Users \cup {Null} : onAuthStateChanged(c, u)
  \/ \E r \in InFlight : \E ok \in BOOLEAN : getIdTokenSettled(r, ok)
  \/ \E r \in InFlight : \E ok \in BOOLEAN : upsertPublicUserSettled(r, ok)
  \/ \E c \in Actors : bucketsOnSnapshot(c)
  \/ \E c \in Actors : bucketsOnSnapshotError(c)
  \/ \E c \in Actors : tripsOnSnapshot(c)
  \/ \E c \in Actors : homeOnSnapshot(c)
  \/ \E c \in Actors : \E t \in elems(tripsScreen[c].trips) : onPressTrip(c, t)
  \/ \E c \in Actors : tripDetailOnSnapshot(c)
  \/ \E c \in Actors : \E b \in elems(bucketsScreen[c].buckets) : quickAdd(c, b, 50)
  \/ \E r \in InFlight : \E ok \in BOOLEAN : quickAddSettled(r, ok)

SpecAuth == InitAuth /\ [][NextAuth]_vars

\* The listeners of the resource collections and of the open trip
ListenerKinds == {"buckets", "trips", "detail", "home"}

\* C22: no subscription opens before the token is ready: whenever a listener
\* of a client is open (home buckets, buckets, trips, trip detail), the
\* getIdToken call of the principal it was opened for has resolved.
C22_TokenBeforeSubscription ==
  \A c \in Clients : \A k \in ListenerKinds :
    attached(listeners[c][k]) => authCtx[c].token = listeners[c].uid

\* C25: no subscription leak: every open listener of a client's screens was
\* opened with the uid of the client's current principal; the listeners of a
\* principal before, or of a screen torn down since, have been unsubscribed.
C25_NoSubscriptionLeak ==
  \A c \in Clients : \A k \in ListenerKinds :
    attached(listeners[c][k]) => user[c] # Null /\ listeners[c].uid = user[c]

\* The buckets listener is live for u1 on a client where u2, the principal
\* before, made a quick add that is still in flight.
C25_ListenerOfNextPrincipal ==
  \E c \in Actors :
    /\ user[c] = "u1"
    /\ listeners[c].buckets = "live" /\ listeners[c].uid = "u1"
    /\ \E r \in InFlight : r.h = "quickAdd" /\ r.uid = "u2"

\* The calls of client c's onAuthStateChanged callbacks that are in flight
authCallsOf(c) == {r \in InFlight : r.c = c /\ r.h \in AuthCalls}

\* C29: auth state converges to the latest event: when no callback of the
\* client's onAuthStateChanged is still running and an auth state has been
\* delivered, the context's user is the principal of the most recent auth
\* state change and loading is false.
C29_AuthConverges ==
  \A c \in Clients :
    (authCallsOf(c) = {} /\ authCtx[c].events > 0)
      => user[c] = authCtx[c].current /\ ~authCtx[c].loading

\* ---- the cloud function lookupUserByEmail called over HTTPS
\* request.data.email of the calls: missing or empty, blanks, the e-mail of
\* u1, the e-mail of u2 with a blank and a capital, an address nobody
\* registered, a text that is no address.
LookupInputs ==
  { <<>>, <<" ">>, <<" ", " ">>,
    <<"a", "@", "x", ".", "i", "o">>,
    <<" ", "B", "@", "x", ".", "i", "o", " ">>,
    <<"z", "@", "x", ".", "i", "o">>,
    <<"a">> }

\* A caller (uid Null: no auth token comes with the call) calls the function.
callLookup(uid, emailRaw) ==
  /\ canSend
  /\ send([NoReq EXCEPT !.h = "lookupUserByEmail", !.uid = uid, !.email = emailRaw])
  /\ UNCHANGED <<user, bucketDocs, tripDocs, listeners, bucketsScreen, tripsScreen,
                 tripDetail, createTrip, homeScreen, console, issued, contributed, authCtx>>

\* The function runs: the result, or the code of the HttpsError, goes back
\* to the caller.
lookupUserByEmailRuns(r) ==
  /\ r.h = "lookupUserByEmail"
  /\ LET res == lookupUserByEmail(r.uid # Null, r.email)
     IN  settledThenSend(r, [r EXCEPT !.h = "lookupResult", !.code = res.code,
                                      !.member = res.uid, !.name = res.email])
  /\ UNCHANGED <<user, bucketDocs, tripDocs, listeners, bucketsScreen, tripsScreen,
                 tripDetail, createTrip, homeScreen, console, issued, contributed, authCtx>>

NextLookup ==
  \/ \E uid \in Users \cup {Null} : \E v \in LookupInputs : callLookup(uid, v)
  \/ \E r \in InFlight : lookupUserByEmailRuns(r)

SpecLookup == InitShared /\ [][NextLookup]_vars

\* Every character of s is white space.
blank(s) == \A i \in 1..Len(s) : s[i] \in WS

\* s without its leading and trailing white space, in lower case, is t.
normalizesTo(s, t) ==
  \E i \in 1..Len(s) : \E j \in i..Len(s) :
    /\ s[i] \notin WS /\ s[j] \notin WS
    /\ \A k \in 1..Len(s) : (k < i \/ k > j) => s[k] \in WS
    /\ Len(t) = j - i + 1
    /\ \A k \in 1..Len(t) : t[k] = LowerChar(s[i + k - 1])

\* C23: the outcomes of lookupUserByEmail: a caller without auth gets
\* unauthenticated whatever the input; a caller with auth and an empty or
\* blank e-mail gets invalid-argument; a caller with auth and another e-mail
\* gets the uid and e-mail of the registered user whose e-mail it is, or
\* not-found when there is none.
C23_LookupOutcomes ==
  \A r \in InFlight : r.h = "lookupResult" =>
    IF r.uid = Null THEN r.code = "unauthenticated"
    ELSE IF blank(r.email) THEN r.code = "invalid-argument"
    ELSE IF \E u \in Users : normalizesTo(r.email, EmailOf[u])
    THEN /\ r.code = "ok"
         /\ r.member \in Users
         /\ normalizesTo(r.email, EmailOf[r.member])
         /\ r.name = EmailOf[r.member]
    ELSE r.code = "not-found"

\* Answers of every kind are on their way: to a caller without auth who sent
\* no e-mail, and to a caller with auth who sent u2's e-mail with a blank and
\* a capital.
C23_AnswersOfEveryKind ==
  /\ \E r \in InFlight : r.h = "lookupResult" /\ r.uid = Null /\ blank(r.email)
                         /\ r.code = "unauthenticated"
  /\ \E r \in InFlight : r.h = "lookupResult" /\ r.uid # Null /\ r.code = "ok"
                         /\ r.member = "u2" /\ Len(r.email) = 8

\* ---- the amounts the client writes: create, edit, contribute
\* What is typed into a target, balance or amount input: a number above 0,
\* zero, a negative number, no number, Infinity.
AmountInputs ==
  { <<"5", "0", "0">>, <<"0">>, <<"-", "5">>, <<"a", "b", "c">>, InfinityStr }

\* The dialogs are modal: while one is open the others cannot be opened.
createOpen(c) == bucketsScreen[c].target # <<>> \/ bucketsScreen[c].balance # <<>>
editOpen(c) == bucketsScreen[c].editing.id # 0
contributeOpen(c) == tripsScreen[c].contributeTrip.id # 0

NextNumeric ==
  \/ \E c \in Actors : bucketsOnSnapshot(c)
  \/ \E c \in Actors : tripsOnSnapshot(c)
  \/ \E c \in Actors : \E v \in AmountInputs :
       idle /\ ~editOpen(c) /\ ~contributeOpen(c) /\ setTarget(c, v)
  \/ \E c \in Actors : \E v \in AmountInputs :
       idle /\ ~editOpen(c) /\ ~contributeOpen(c) /\ setBalance(c, v)
  \/ \E c \in Actors : idle /\ createOpen(c) /\ closeCreate(c)
  \/ \E c \in Actors : idle /\ onAddBucket(c)
  \/ \E r \in InFlight : \E ok \in BOOLEAN : onAddBucketSettled(r, ok)
  \/ \E c \in Actors : \E b \in elems(bucketsScreen[c].buckets) :
       idle /\ ~createOpen(c) /\ ~contributeOpen(c) /\ ~editOpen(c) /\ startEdit(c, b)
  \/ \E c \in Actors : \E v \in AmountInputs : idle /\ editTarget(c, v)
  \/ \E c \in Actors : \E v \in AmountInputs : idle /\ editBalance(c, v)
  \/ \E c \in Actors : idle /\ closeEdit(c)
  \/ \E c \in Actors : idle /\ onSaveEdit(c)
  \/ \E r \in InFlight : \E ok \in BOOLEAN : onSaveEditSettled(r, ok)
  \/ \E c \in Actors : \E t \in elems(tripsScreen[c].trips) :
       idle /\ ~createOpen(c) /\ ~editOpen(c) /\ ~contributeOpen(c) /\ openContribute(c, t)
  \/ \E c \in Actors : \E v \in AmountInputs : idle /\ setContributeAmount(c, v)
  \/ \E c \in Actors : idle /\ contributeOpen(c) /\ closeContribute(c)
  \/ \E c \in Actors : idle /\ onConfirmContribute(c)
  \/ \E r \in InFlight : \E ok \in BOOLEAN : onConfirmContributeSettled(r, ok)
  \/ \E c \in Actors : \E b \in elems(bucketsScreen[c].buckets) :
       idle /\ ~createOpen(c) /\ ~editOpen(c) /\ ~contributeOpen(c) /\ quickAdd(c, b, 50)
  \/ \E r \in InFlight : \E ok \in BOOLEAN : quickAddSettled(r, ok)
  \/ \E c \in Actors : \E t \in elems(tripsScreen[c].trips) :
       idle /\ ~createOpen(c) /\ ~editOpen(c) /\ ~contributeOpen(c) /\ quickContribute(c, t, 50)
  \/ \E r \in InFlight : \E ok \in BOOLEAN : quickContributeSettled(r, ok)

SpecNumeric == InitShared /\ [][NextNumeric]_vars

\* A finite number above 0 / a finite number not below 0
validTarget(n) == isFinite(n) /\ gt0(n)
validBalance(n) == isFinite(n) /\ ~lt0(n)

\* C24: stored numeric fields stay valid: every stored bucket and trip has a
\* finite target above 0 and a finite balance (saved) not below 0, and every
\* write in flight is valid: a create or edit carries such a target and
\* balance, a contribution a finite amount above 0.
C24_StoredAmountsValid ==
  /\ \A i \in BucketIds :
       bucketDocs[i].exists
         => validTarget(bucketDocs[i].target) /\ validBalance(bucketDocs[i].balance)
  /\ \A i \in TripIds :
       tripDocs[i].exists => validTarget(tripDocs[i].target) /\ validBalance(tripDocs[i].saved)
  /\ \A r \in InFlight :
       /\ r.h \in {"onAddBucket", "onSaveEdit"} => validTarget(r.target) /\ validBalance(r.balance)
       /\ r.h \in {"onCreateTrip", "onSave"} => validTarget(r.target)
       /\ r.h \in {"quickContribute", "onConfirmContribute", "contribute"}
            => validTarget(r.amount)
       /\ r.h = "quickAdd" => validBalance(r.balance)

\* The store holds an edited bucket, a created bucket and a trip with a
\* contribution, and the edit dialog is open again with a balance below 0.
C24_WrittenAndRefused ==
  /\ bucketDocs[1].target = Fin(500)
  /\ bucketDocs[2].exists
  /\ tripDocs[1].saved = Fin(500)
  /\ \E c \in Actors :
       bucketsScreen[c].editing.id = 1 /\ lt0(bucketsScreen[c].editing.balance)

\* ---- the members dialog and the snapshots delivered while it is open
\* C26: the members dialog tracks live data: while the members dialog of a
\* bucket is open, the member list it shows and the owner its gating and the
\* guards of inviteMemberByEmail, removeMember and leaveBucket use are those
\* of the bucket in the most recently delivered snapshot.
C26_MembersDialogLive ==
  \A c \in Clients :
    LET membersBucket == bucketsScreen[c].membersBucket IN
      membersBucket.id # 0 =>
        \A b \in elems(bucketsScreen[c].buckets) :
          b.id = membersBucket.id
            => b.memberIds = membersBucket.memberIds /\ b.ownerId = membersBucket.ownerId

\* ---- the owner edits a bucket while another member contributes to it
Owner == UserOrder[1]

NextEditRace ==
  \/ \E c \in Clients : bucketsOnSnapshot(c)
  \/ \E b \in elems(bucketsScreen[Owner].buckets) : startEdit(Owner, b)
  \/ \E v \in EditTargetInputs : editTarget(Owner, v)
  \/ closeEdit(Owner)
  \/ onSaveEdit(Owner)
  \/ \E r \in InFlight : \E ok \in BOOLEAN : onSaveEditSettled(r, ok)
  \/ \E c \in Actors : \E b \in elems(bucketsScreen[c].buckets) : quickAdd(c, b, 50)
  \/ \E r \in InFlight : \E ok \in BOOLEAN : quickAddSettled(r, ok)

SpecEditRace == InitShared /\ [][NextEditRace]_vars

\* C27: an edit does not overwrite concurrent contributions: with the owner
\* never changing the balance field of the edit dialog, the stored balance of
\* a bucket (0 at first) includes every contribution the store has applied,
\* also one applied between the owner's startEdit and the save.
C27_EditKeepsContributions ==
  \A i \in BucketIds :
    bucketDocs[i].exists => bucketDocs[i].balance = Fin(contributed.buckets[i])

\* ---- error messages of the trips, trip detail and buckets screens
\* What is typed into the inputs: an amount and no amount, an address nobody
\* registered and no address.
ErrorAmountInputs == { <<"5", "0">>, <<"a", "b", "c">> }
ErrorEmailInputs == { <<"z", "@", "x", ".", "i", "o">>, <<"z">> }

NextErrors ==
  \/ \E c \in Actors : bucketsOnSnapshot(c)
  \/ \E c \in Actors : tripsOnSnapshot(c)
  \/ \E c \in Actors : tripDetailOnSnapshot(c)
  \/ \E c \in Actors : \E t \in elems(tripsScreen[c].trips) : idle /\ quickContribute(c, t, 50)
  \/ \E r \in InFlight : \E ok \in BOOLEAN : quickContributeSettled(r, ok)
  \/ \E c \in Actors : idle /\ contribute(c, 50)
  \/ \E r \in InFlight : \E ok \in BOOLEAN : contributeSettled(r, ok)
  \/ \E c \in Actors : \E t \in elems(tripsScreen[c].trips) :
       idle /\ ~contributeOpen(c) /\ openContribute(c, t)
  \/ \E c \in Actors : \E v \in ErrorAmountInputs : idle /\ setContributeAmount(c, v)
  \/ \E c \in Actors : idle /\ onConfirmContribute(c)
  \/ \E r \in InFlight : \E ok \in BOOLEAN : onConfirmContributeSettled(r, ok)
  \/ \E c \in Actors : \E v \in ErrorAmountInputs : idle /\ tripsSetTarget(c, v)
  \/ \E c \in Actors : idle /\ onCreateTrip(c)
  \/ \E r \in InFlight : \E ok \in BOOLEAN : onCreateTripSettled(r, ok)
  \/ \E c \in Actors : \E b \in elems(bucketsScreen[c].buckets) :
       idle /\ bucketsScreen[c].membersBucket.id = 0 /\ openMembers(c, b)
  \/ \E c \in Actors : \E v \in ErrorEmailInputs : idle /\ setInviteEmail(c, v)
  \/ \E c \in Actors : idle /\ inviteMemberByEmail(c)

SpecErrors == InitSurfaces /\ [][NextErrors]_vars

\* The step is the success of a contribution to a trip that handler h of
\* client c had in flight.
contributionSucceeds(c, h) ==
  \E r \in InFlight :
    /\ r.c = c /\ r.h = h
    /\ CopiesIn(r, pending') < CopiesIn(r, pending)
    /\ contributed'.trips[r.id] > contributed.trips[r.id]

\* C28: a failed action's error is cleared by a successful retry: after the
\* success of a quick contribution the trips screen shows no error, after the
\* success of a contribution on the trip detail screen that screen shows none;
\* and a change of the invite input, of the create-trip inputs and of the
\* amount input of the contribute dialog clears the error shown next to it.
C28_ErrorsCleared ==
  [][\A c \in Clients :
       /\ contributionSucceeds(c, "quickContribute") => tripsScreen'[c].error = Null
       /\ contributionSucceeds(c, "contribute") => tripDetail'[c].error = Null
       /\ bucketsScreen'[c].inviteEmail # bucketsScreen[c].inviteEmail
            => bucketsScreen'[c].membersError = Null
       /\ (\/ tripsScreen'[c].title # tripsScreen[c].title
           \/ tripsScreen'[c].target # tripsScreen[c].target)
            => tripsScreen'[c].createError = Null
       /\ tripsScreen'[c].contributeAmount # tripsScreen[c].contributeAmount
            => tripsScreen'[c].contributeError = Null]_vars

\* ---- the pending flags of the dialogs of one client
\* Members dialog: inviteDisabled
inviteDisabled(c) ==
  LET email == toLowerCase(trim(bucketsScreen[c].inviteEmail)) IN
    IF ~(user[c] # Null /\ bucketsScreen[c].membersBucket.ownerId = user[c]) THEN TRUE
    ELSE IF ~isValidInviteEmail(email) THEN TRUE
    ELSE IF toLowerCase(EmailOf[user[c]]) = email THEN TRUE
    ELSE bucketsScreen[c].membersSubmitting

\* Invite: disabled={inviteDisabled}
pressInvite(c) == ~inviteDisabled(c) /\ inviteMemberByEmail(c)

\* Remove and Leave of the members dialog: disabled={membersSubmitting}
pressRemove(c, uid) == ~bucketsScreen[c].membersSubmitting /\ removeMember(c, uid)
pressLeave(c) == ~bucketsScreen[c].membersSubmitting /\ leaveBucket(c)

\* No dialog of the client's screens is open.
noDialog(c) ==
  /\ ~createOpen(c) /\ ~editOpen(c) /\ ~contributeOpen(c)
  /\ bucketsScreen[c].membersBucket.id = 0

\* Save of the edit dialog has loading={submitting} and no disabled: it calls
\* onSaveEdit whenever it is pressed.
NextFlags ==
  \/ \E c \in Actors : bucketsOnSnapshot(c)
  \/ \E c \in Actors : tripsOnSnapshot(c)
  \/ \E c \in Actors : \E b \in elems(bucketsScreen[c].buckets) : noDialog(c) /\ startEdit(c, b)
  \/ \E c \in Actors : closeEdit(c)
  \/ \E c \in Actors : onSaveEdit(c)
  \/ \E r \in InFlight : \E ok \in BOOLEAN : onSaveEditSettled(r, ok)
  \/ \E c \in Actors : \E b \in elems(bucketsScreen[c].buckets) : noDialog(c) /\ openMembers(c, b)
  \/ \E c \in Actors : closeMembers(c)
  \/ \E c \in Actors : \E v \in ActorInviteInputs : setInviteEmail(c, v)
  \/ \E c \in Actors : pressInvite(c)
  \/ \E r \in InFlight : \E ok \in BOOLEAN : inviteLookupSettled(r, ok)
  \/ \E r \in InFlight : \E ok \in BOOLEAN : inviteUpdateSettled(r, ok)
  \/ \E c \in Actors : \E uid \in bucketsScreen[c].membersBucket.memberIds : pressRemove(c, uid)
  \/ \E r \in InFlight : \E ok \in BOOLEAN : removeMemberSettled(r, ok)
  \/ \E c \in Actors : pressLeave(c)
  \/ \E r \in InFlight : \E ok \in BOOLEAN : leaveBucketSettled(r, ok)
  \/ \E c \in Actors : \E t \in elems(tripsScreen[c].trips) : noDialog(c) /\ openContribute(c, t)
  \/ \E c \in Actors : \E v \in ContributeInputs : setContributeAmount(c, v)
  \/ \E c \in Actors : pressAdd(c)
  \/ \E r \in InFlight : \E ok \in BOOLEAN : onConfirmContributeSettled(r, ok)

SpecFlags == InitTwo /\ [][NextFlags]_vars

\* A request that one of the handlers hs of client c's screen started is
\* outstanding.
busy(c, hs) == \E r \in InFlight : r.c = c /\ r.h \in hs

\* C30: pending flags match outstanding requests: submitting,
\* membersSubmitting, creating and contributeSubmitting are true while a
\* request started by a handler that sets the flag is outstanding, and false
\* again once every such request has settled or the handler has returned.
C30_PendingFlagsMatch ==
  \A c \in Clients :
    /\ bucketsScreen[c].submitting <=> busy(c, {"onAddBucket", "onSaveEdit", "onConfirmDelete"})
    /\ bucketsScreen[c].membersSubmitting
         <=> busy(c, {"inviteLookup", "inviteUpdate", "removeMember", "leaveBucket"})
    /\ tripsScreen[c].creating <=> busy(c, {"onCreateTrip"})
    /\ tripsScreen[c].contributeSubmitting <=> busy(c, {"onConfirmContribute"})

====
